---- MODULE Spec2Model ----
(***************************************************************************)
(* Scheduling engine of the install scheduling backend (backend/index.js): *)
(* date shift, slice generation, availability / daily-cap / overlap        *)
(* validation and persistence of POST and PATCH /api/schedules, together   *)
(* with the availability editor of the frontend.                           *)
(*                                                                         *)
(* Time is counted in ticks of 1/60000 hour (0.06 s): a minute, 0.0001     *)
(* hour and the quotient of such amounts by 1, 2 or 3 installers are all   *)
(* whole numbers of ticks.  An instant is a number of ticks since 00:00    *)
(* UTC of day 0, and day 0 is a Monday.  The server's time zone is the     *)
(* variable tzOffset, what Date.prototype.getTimezoneOffset() returns:     *)
(* local time = UTC - tzOffset, positive west of Greenwich.                *)
(***************************************************************************)
EXTENDS Integers, Sequences, FiniteSets, TLC

VARIABLES tzOffset, settings, schedules, schedule_installers, schedule_slices,
          nextId, last, inflight

vars == <<tzOffset, settings, schedules, schedule_installers, schedule_slices,
          nextId, last, inflight>>

----------------------------------------------------------------------------
(* Units *)

TicksPerHour == 60 * 1000

TicksPerMinute == TicksPerHour \div 60

TicksPerDay == 24 * TicksPerHour

\* 0.0001 hour
Tenth == TicksPerHour \div 10000

Hours(h) == h * TicksPerHour

Min(a, b) == IF a <= b THEN a ELSE b

----------------------------------------------------------------------------
(* JavaScript Date and date strings.                                       *)
(* A date string is [z, day, tod]: z tells an ISO string ending in Z (UTC  *)
(* fields) from a zone-less "YYYY-MM-DDTHH:MM" string (local fields); day  *)
(* is the calendar date written in it and tod the time written in it.      *)

DateStr(z, day, tod) == [z |-> z, day |-> day, tod |-> tod]

\* a zone-less string as the frontend's formatLocalDateTime writes it
LocalStr(day, hour, minute) ==
  DateStr(FALSE, day, hour * TicksPerHour + minute * TicksPerMinute)

\* new Date(s).getTime() / Date.parse(s)
DateParse(s) ==
  IF s.z THEN s.day * TicksPerDay + s.tod
         ELSE s.day * TicksPerDay + s.tod + tzOffset

\* s.slice(0,10)
Slice10(s) == s.day

\* d.toISOString()
ToISOString(t) == DateStr(TRUE, t \div TicksPerDay, t % TicksPerDay)

\* d.toISOString().slice(0,10)
ISODay(t) == t \div TicksPerDay

\* d.toISOString().slice(0,16): the UTC fields cut to the minute, no Z left
ToISO16(t) ==
  DateStr(FALSE, t \div TicksPerDay,
          (t % TicksPerDay) - ((t % TicksPerDay) % TicksPerMinute))

LocalDay(t) == (t - tzOffset) \div TicksPerDay

\* d.getDay(): 0 Sunday .. 6 Saturday (day 0 is a Monday)
GetDay(t) == (LocalDay(t) + 1) % 7

\* d.getHours()
GetHours(t) == ((t - tzOffset) % TicksPerDay) \div TicksPerHour

\* d.setHours(h,0,0,0)
SetHours(t, h) == LocalDay(t) * TicksPerDay + h * TicksPerHour + tzOffset

\* a step of a whole week
AddWeek(t) == t + 7 * TicksPerDay

\* d.setDate(d.getDate()+1)
AddDay(t) == t + TicksPerDay

IsWeekendDow(dow) == dow = 0 \/ dow = 6

----------------------------------------------------------------------------
(* Date shift of POST and PATCH /api/schedules *)

RECURSIVE ShiftLoop(_, _)
ShiftLoop(d, holidays) ==
  IF ~IsWeekendDow(GetDay(d)) /\ ~(ISODay(d) \in holidays)
  THEN d
  ELSE ShiftLoop(AddDay(d), holidays)

\* the shift guarded by the daily-limit flag alone
ShiftDateIgnoringCore(date, override, core_hours_override, holidays) ==
  LET d == DateParse(date)
      dow == GetDay(d)
      isHoliday == ISODay(d) \in holidays
  IN IF (IsWeekendDow(dow) \/ isHoliday) /\ ~override
     THEN [date |-> ToISO16(ShiftLoop(d, holidays)),
           shiftedWeekend |-> IsWeekendDow(dow),
           shiftedHoliday |-> ~IsWeekendDow(dow)]
     ELSE [date |-> date, shiftedWeekend |-> FALSE, shiftedHoliday |-> FALSE]

\* the block "if (date) { ... }": the date used from there on and the flags
ShiftDate(date, override, core_hours_override, holidays) ==
  LET d == DateParse(date)
      dow == GetDay(d)
      isHoliday == ISODay(d) \in holidays
  IN IF (IsWeekendDow(dow) \/ isHoliday) /\ ~override /\ ~core_hours_override
     THEN [date |-> ToISO16(ShiftLoop(d, holidays)),
           shiftedWeekend |-> IsWeekendDow(dow),
           shiftedHoliday |-> ~IsWeekendDow(dow)]
     ELSE [date |-> date, shiftedWeekend |-> FALSE, shiftedHoliday |-> FALSE]

----------------------------------------------------------------------------
(* generateSlices *)

MaxIter == 100

Slice(start, hours) == [start |-> start, hours |-> hours]

\* the variables of the while loop
LoopState(remaining, idx, cursor, slices) ==
  [remaining |-> remaining, idx |-> idx, cursor |-> cursor, slices |-> slices]

\* while (remaining > 0 && idx < 100)
LoopRuns(st) == st.remaining > 0 /\ st.idx < MaxIter

\* a pass that does not count a skipped weekend day or holiday
LoopBodySkipsUncounted(st, startISO, cfg) ==
  LET cursor == st.cursor
      dayKey == ISODay(cursor)
      isWeekend == IsWeekendDow(GetDay(cursor)) \/ dayKey \in cfg.holidays
      dayStart == SetHours(cursor, cfg.coreStart)
      workStart0 == dayStart + cfg.driveOut * TicksPerMinute
      workEndCap == SetHours(cursor, cfg.coreEnd)
                      - cfg.driveBack * TicksPerMinute
      desired == DateParse(startISO)
      workStart == IF st.idx = 0 /\ desired > workStart0 /\ desired < workEndCap
                   THEN desired ELSE workStart0
      sliceHours == Min(st.remaining, workEndCap - workStart)
  IN IF isWeekend
     THEN LoopState(st.remaining, st.idx,
                    SetHours(AddDay(cursor), cfg.coreStart), st.slices)
     ELSE IF workEndCap <= workStart
     THEN LoopState(st.remaining, st.idx + 1,
                    SetHours(AddDay(cursor), cfg.coreStart), st.slices)
     ELSE LoopState(st.remaining - sliceHours, st.idx + 1,
                    SetHours(AddDay(dayStart), cfg.coreStart),
                    Append(st.slices,
                           Slice(ToISOString(workStart), sliceHours)))

\* a pass that starts every day at coreStart + driveOut
LoopBodyFromWindowStart(st, startISO, cfg) ==
  LET cursor == st.cursor
      dayKey == ISODay(cursor)
      isWeekend == IsWeekendDow(GetDay(cursor)) \/ dayKey \in cfg.holidays
      skip == LoopState(st.remaining, st.idx + 1,
                        SetHours(AddDay(cursor), cfg.coreStart), st.slices)
      dayStart == SetHours(cursor, cfg.coreStart)
      workStart == dayStart + cfg.driveOut * TicksPerMinute
      workEndCap == SetHours(cursor, cfg.coreEnd)
                      - cfg.driveBack * TicksPerMinute
      sliceHours == Min(st.remaining, workEndCap - workStart)
  IN IF isWeekend \/ workEndCap <= workStart THEN skip
     ELSE LoopState(st.remaining - sliceHours, st.idx + 1,
                    SetHours(AddDay(dayStart), cfg.coreStart),
                    Append(st.slices,
                           Slice(ToISOString(workStart), sliceHours)))

\* a pass that reserves no travel: the whole core window is worked
LoopBodyNoTravel(st, startISO, cfg) ==
  LET cursor == st.cursor
      dayKey == ISODay(cursor)
      isWeekend == IsWeekendDow(GetDay(cursor)) \/ dayKey \in cfg.holidays
      skip == LoopState(st.remaining, st.idx + 1,
                        SetHours(AddDay(cursor), cfg.coreStart), st.slices)
      dayStart == SetHours(cursor, cfg.coreStart)
      workEndCap == SetHours(cursor, cfg.coreEnd)
      desired == DateParse(startISO)
      workStart == IF st.idx = 0 /\ desired > dayStart /\ desired < workEndCap
                   THEN desired ELSE dayStart
      sliceHours == Min(st.remaining, workEndCap - workStart)
  IN IF isWeekend \/ workEndCap <= workStart THEN skip
     ELSE LoopState(st.remaining - sliceHours, st.idx + 1,
                    SetHours(AddDay(dayStart), cfg.coreStart),
                    Append(st.slices,
                           Slice(ToISOString(workStart), sliceHours)))

\* one pass through the body of the while loop
LoopBody(st, startISO, cfg) ==
  LET cursor == st.cursor
      dayKey == ISODay(cursor)
      isWeekend == IsWeekendDow(GetDay(cursor)) \/ dayKey \in cfg.holidays
      skip == LoopState(st.remaining, st.idx + 1,
                        SetHours(AddDay(cursor), cfg.coreStart), st.slices)
      dayStart == SetHours(cursor, cfg.coreStart)
      dayEnd == SetHours(cursor, cfg.coreEnd)
      workStart0 == dayStart + cfg.driveOut * TicksPerMinute
      workEndCap == dayEnd - cfg.driveBack * TicksPerMinute
      desired == DateParse(startISO)
      workStart == IF st.idx = 0 /\ desired > workStart0 /\ desired < workEndCap
                   THEN desired ELSE workStart0
      workCapHours == workEndCap - workStart
      sliceHours == Min(st.remaining, workCapHours)
  IN IF isWeekend THEN skip
     ELSE IF workEndCap <= workStart0 THEN skip
     ELSE IF workCapHours <= 0 THEN skip
     ELSE LoopState(st.remaining - sliceHours, st.idx + 1,
                    SetHours(AddDay(dayStart), cfg.coreStart),
                    Append(st.slices,
                           Slice(ToISOString(workStart), sliceHours)))

\* the loop run for at most n passes, the passes split in two halves; idx
\* grows by one in every pass, so MaxIter passes run the loop to its end
RECURSIVE LoopPasses(_, _, _, _)
LoopPasses(st, n, startISO, cfg) ==
  IF n = 0 \/ ~LoopRuns(st) THEN st
  ELSE IF n = 1 THEN LoopBody(st, startISO, cfg)
  ELSE LoopPasses(LoopPasses(st, n \div 2, startISO, cfg), n - (n \div 2),
                  startISO, cfg)

SliceLoop(remaining, idx, cursor, slices, startISO, cfg) ==
  LoopPasses(LoopState(remaining, idx, cursor, slices), MaxIter,
             startISO, cfg).slices

\* coreSpan - driveOut/60 - driveBack/60 <= 0, in minutes
NoWorkingTime(cfg) ==
  (cfg.coreEnd - cfg.coreStart) * 60 - cfg.driveOut - cfg.driveBack <= 0

\* a generator that splits by day also under the core-hours override
generateSlicesSplitting(startISO, totalManHours, installerIds, coreOverrideFlag, override, cfg) ==
  IF Len(installerIds) = 0 \/ totalManHours = 0
  THEN [threw |-> FALSE, slices |-> <<>>]
  ELSE
    LET perClockTotal == totalManHours \div Len(installerIds)
        cursor0 == DateParse(startISO)
        cursor == IF GetHours(cursor0) < cfg.coreStart
                  THEN SetHours(cursor0, cfg.coreStart) ELSE cursor0
    IN IF ~coreOverrideFlag /\ ~override /\ NoWorkingTime(cfg)
       THEN [threw |-> TRUE, slices |-> <<>>]
       ELSE IF override
       THEN [threw |-> FALSE, slices |-> <<Slice(startISO, perClockTotal)>>]
       ELSE [threw |-> FALSE,
             slices |-> SliceLoop(perClockTotal, 0, cursor, <<>>, startISO, cfg)]

\* generateSlices(startISO, totalManHours, installerIds, coreOverrideFlag),
\* override being the handler's variable it closes over.  Result:
\* [threw, slices].  Nothing is generated without installers or with
\* totalManHours 0 (falsy, like an absent one).
generateSlices(startISO, totalManHours, installerIds, coreOverrideFlag, override, cfg) ==
  IF Len(installerIds) = 0 \/ totalManHours = 0
  THEN [threw |-> FALSE, slices |-> <<>>]
  ELSE
    LET perClockTotal == totalManHours \div Len(installerIds)
        cursor0 == DateParse(startISO)
        cursor == IF GetHours(cursor0) < cfg.coreStart
                  THEN SetHours(cursor0, cfg.coreStart) ELSE cursor0
    IN IF ~coreOverrideFlag /\ ~override /\ NoWorkingTime(cfg)
       THEN [threw |-> TRUE, slices |-> <<>>]
       ELSE IF coreOverrideFlag \/ override
       THEN [threw |-> FALSE, slices |-> <<Slice(startISO, perClockTotal)>>]
       ELSE [threw |-> FALSE,
             slices |-> SliceLoop(perClockTotal, 0, cursor, <<>>, startISO, cfg)]

\* one pass of the while loop of the generateSlices that the update handler
\* declares for itself
PatchLoopBody(st, startISO, cfg) ==
  LET cursor == st.cursor
      dayKey == ISODay(cursor)
      isWeekend == IsWeekendDow(GetDay(cursor)) \/ dayKey \in cfg.holidays
      nextDay == SetHours(AddDay(cursor), cfg.coreStart)
      dayStart == SetHours(cursor, cfg.coreStart)
      dayEnd == SetHours(cursor, cfg.coreEnd)
      workStartInit == dayStart + cfg.driveOut * TicksPerMinute
      workEndCap == dayEnd - cfg.driveBack * TicksPerMinute
      desired == DateParse(startISO)
      moved == st.idx = 0 /\ desired > workStartInit /\ desired < workEndCap
      workStart == IF moved THEN desired ELSE workStartInit
      workCapHours == workEndCap - workStart
      sliceHours == Min(st.remaining, workCapHours)
  IN CASE isWeekend -> LoopState(st.remaining, st.idx + 1, nextDay, st.slices)
       [] ~isWeekend /\ workEndCap <= workStartInit ->
            LoopState(st.remaining, st.idx + 1, nextDay, st.slices)
       [] ~isWeekend /\ workEndCap > workStartInit /\ workCapHours <= 0 ->
            LoopState(st.remaining, st.idx + 1, nextDay, st.slices)
       [] OTHER ->
            LoopState(st.remaining - sliceHours, st.idx + 1,
                      SetHours(AddDay(dayStart), cfg.coreStart),
                      Append(st.slices,
                             Slice(ToISOString(workStart), sliceHours)))

\* its loop, run for at most n passes, the passes split in two halves
RECURSIVE PatchLoopPasses(_, _, _, _)
PatchLoopPasses(st, n, startISO, cfg) ==
  IF n = 0 \/ ~LoopRuns(st) THEN st
  ELSE IF n = 1 THEN PatchLoopBody(st, startISO, cfg)
  ELSE PatchLoopPasses(PatchLoopPasses(st, n \div 2, startISO, cfg),
                       n - (n \div 2), startISO, cfg)

\* generateSlices(startISO, totalManHours, installerIds, coreOverrideFlag) of
\* the update handler, override being the variable it closes over
generateSlicesPatch(startISO, totalManHours, installerIds, coreOverrideFlag, override, cfg) ==
  LET nInstallers == Len(installerIds)
      perClockTotal == totalManHours \div nInstallers
      coreSpan == cfg.coreEnd - cfg.coreStart
      start == DateParse(startISO)
      cursor == IF GetHours(start) < cfg.coreStart
                THEN SetHours(start, cfg.coreStart) ELSE start
  IN IF nInstallers = 0 \/ totalManHours = 0
     THEN [threw |-> FALSE, slices |-> <<>>]
     ELSE IF /\ ~coreOverrideFlag /\ ~override
             /\ coreSpan * 60 - cfg.driveOut - cfg.driveBack <= 0
     THEN [threw |-> TRUE, slices |-> <<>>]
     ELSE IF coreOverrideFlag \/ override
     THEN [threw |-> FALSE, slices |-> <<Slice(startISO, perClockTotal)>>]
     ELSE [threw |-> FALSE,
           slices |-> PatchLoopPasses(LoopState(perClockTotal, 0, cursor, <<>>),
                                      MaxIter, startISO, cfg).slices]

----------------------------------------------------------------------------
(* Settings.  availability is the parsed JSON object kept under the key    *)
(* 'availability': a set of entries [k1, k2, out, outHours] standing for   *)
(* object[k1][k2] = {out, outHours}.  Keys are strings in the program; a   *)
(* date key is DateKey(day) and an installer-id key is InstKey(id), and no *)
(* date string equals an id string.                                        *)

DateKey(day) == <<"date", day>>

InstKey(id) == <<"inst", id>>

AvailEntry(k1, k2, out, outHours) ==
  [k1 |-> k1, k2 |-> k2, out |-> out, outHours |-> outHours]

\* (availability[a] || {})[b]: the set holding the entry, empty when undefined
Lookup(availability, a, b) == {e \in availability : e.k1 = a /\ e.k2 = b}

\* the defaults seeded at startup
DefaultSettings ==
  [coreStart |-> 8, coreEnd |-> 16, driveOut |-> 0, driveBack |-> 0,
   holidays |-> {}, availability |-> {}]

----------------------------------------------------------------------------
(* Availability enforcement of POST and PATCH /api/schedules *)

\* hoursSpan: each whole hour startHour + h with h < perInstallerHours
HoursSpan(date, man_hours, installers) ==
  LET startHour == GetHours(DateParse(date))
  IN {startHour + h : h \in {x \in 0..23 :
          x * TicksPerHour * Len(installers) < man_hours /\ startHour + x < 24}}

\* TRUE when the loop over the installers returns a 400
AvailabilityRejects(date, man_hours, installers, availability) ==
  \E i \in 1..Len(installers) :
    \E instAvail \in Lookup(availability, InstKey(installers[i]),
                            DateKey(Slice10(date))) :
      \/ instAvail.out
      \/ HoursSpan(date, man_hours, installers) \cap instAvail.outHours # {}

----------------------------------------------------------------------------
(* Per-day 8h limit and overlap against the persisted slices *)

\* the limit without the 0.0001 h tolerance
DailyLimitStrict == 8 * TicksPerHour

\* 8.0001 hours
DailyLimit == 8 * TicksPerHour + Tenth

SliceRow(schedule_id, slice_index, date, duration_hours) ==
  [schedule_id |-> schedule_id, slice_index |-> slice_index,
   date |-> date, duration_hours |-> duration_hours]

\* the SELECT ... JOIN schedules JOIN schedule_installers WHERE
\* si.installer_id = ? AND ss.date LIKE 'sliceDay%': positions in the table
ExistingDaySlices(rows, scheds, links, installer_id, sliceDay) ==
  {k \in 1..Len(rows) :
     /\ \E s \in scheds : s.id = rows[k].schedule_id
     /\ <<rows[k].schedule_id, installer_id>> \in links
     /\ Slice10(rows[k].date) = sliceDay}

RECURSIVE SumHours(_, _)
SumHours(rows, ks) ==
  IF ks = {} THEN 0
  ELSE LET k == CHOOSE x \in ks : TRUE
       IN rows[k].duration_hours + SumHours(rows, ks \ {k})

\* the pair's outcome when the rows of the edited job itself count too
PairResultCountingSelf(slice, installer_id, self, rows, scheds, links) ==
  LET sliceStartTs == DateParse(slice.start)
      sliceEndTs == sliceStartTs + slice.hours
      others == ExistingDaySlices(rows, scheds, links, installer_id,
                                  Slice10(slice.start))
      overlaps(k) ==
        LET otherStart == DateParse(rows[k].date)
            otherEnd == otherStart + rows[k].duration_hours
        IN otherStart < sliceEndTs /\ sliceStartTs < otherEnd
  IN IF \E k \in others : overlaps(k) THEN "OverlapConflict"
     ELSE IF SumHours(rows, others) + slice.hours > DailyLimit
     THEN "DailyCapExceeded"
     ELSE "ok"

\* the body of "for (const installer_id of installers)" for one slice;
\* self is the id of the schedule being updated (0 for a create)
PairResult(slice, installer_id, self, rows, scheds, links) ==
  LET sliceStartTs == DateParse(slice.start)
      sliceEndTs == sliceStartTs + slice.hours
      others == {k \in ExistingDaySlices(rows, scheds, links, installer_id,
                                          Slice10(slice.start)) :
                   rows[k].schedule_id # self}
      overlaps(k) ==
        LET otherStart == DateParse(rows[k].date)
            otherEnd == otherStart + rows[k].duration_hours
        IN otherStart < sliceEndTs /\ sliceStartTs < otherEnd
  IN IF \E k \in others : overlaps(k) THEN "OverlapConflict"
     ELSE IF SumHours(rows, others) + slice.hours > DailyLimit
     THEN "DailyCapExceeded"
     ELSE "ok"

\* the two nested loops: the first pair, slices outermost, that returns
ValidateSlices(provisionalSlices, installers, self, rows, scheds, links) ==
  LET n == Len(installers)
      res(p) == PairResult(provisionalSlices[((p - 1) \div n) + 1],
                           installers[((p - 1) % n) + 1],
                           self, rows, scheds, links)
      bad == {p \in 1..(Len(provisionalSlices) * n) : res(p) # "ok"}
  IN IF bad = {} THEN "ok"
     ELSE res(CHOOSE p \in bad : \A q \in bad : p <= q)

----------------------------------------------------------------------------
(* Request bodies.  fields holds the names of the properties present in    *)
(* the JSON body; an absent flag is FALSE, an absent man_hours is 0 and an *)
(* absent installer list is empty, each being falsy / without length in    *)
(* the handlers.                                                           *)

AllFields == {"date", "man_hours", "installers", "override",
              "core_hours_override", "override_availability"}

PatchBody(fields, date, man_hours, installers, override, core, avail) ==
  [fields |-> fields, date |-> date, man_hours |-> man_hours,
   installers |-> installers, override |-> override,
   core_hours_override |-> core, override_availability |-> avail]

PostBody(date, man_hours, installers, override, core, avail) ==
  PatchBody(AllFields, date, man_hours, installers, override, core, avail)

----------------------------------------------------------------------------
(* Persisting *)

\* the INSERTs of "Persist slices", in table order
SliceRows(id, provisionalSlices) ==
  [i \in 1..Len(provisionalSlices) |->
     SliceRow(id, i - 1, provisionalSlices[i].start,
              provisionalSlices[i].hours)]

Links(id, installers) == {<<id, installers[i]>> : i \in 1..Len(installers)}

\* PRIMARY KEY (schedule_id, installer_id): the INSERT of a link that is
\* already there fails; position of the first such installer, 0 if none
FirstDuplicate(installers) ==
  LET dup == {j \in 1..Len(installers) :
                \E i \in 1..(j - 1) : installers[i] = installers[j]}
  IN IF dup = {} THEN 0 ELSE CHOOSE j \in dup : \A k \in dup : j <= k

\* the links inserted before the failing INSERT
LinksBeforeDuplicate(id, installers) ==
  {<<id, installers[i]>> : i \in 1..(FirstDuplicate(installers) - 1)}

ScheduleRow(id, date, man_hours, core, override, avail) ==
  [id |-> id, date |-> date, man_hours |-> man_hours,
   core_hours_override |-> core, override_hours |-> override,
   override_availability |-> avail]

NoId == 0

\* a report that names the daily-limit override for the core-hour flag
RuleOverridesSwapped(body) ==
  (IF body.core_hours_override THEN <<"hours_or_overlap">> ELSE <<>>)
  \o (IF body.override_availability THEN <<"availability">> ELSE <<>>)
  \o (IF body.override THEN <<"core_hours">> ELSE <<>>)

\* rule_overrides: one push per flag of the request body that is set
RuleOverrides(body) ==
  (IF body.override THEN <<"hours_or_overlap">> ELSE <<>>)
  \o (IF body.override_availability THEN <<"availability">> ELSE <<>>)
  \o (IF body.core_hours_override THEN <<"core_hours">> ELSE <<>>)

\* the answer of a handler; rule_overrides is part of the success answer
Response(op, id, body, status, kind, date, sh, slices) ==
  [op |-> op, id |-> id, body |-> body, status |-> status, kind |-> kind,
   date |-> date, shiftedWeekend |-> sh.shiftedWeekend,
   shiftedHoliday |-> sh.shiftedHoliday, slices |-> slices,
   rule_overrides |-> IF status = "ok" THEN RuleOverrides(body) ELSE <<>>]

NoShift(date) ==
  [date |-> date, shiftedWeekend |-> FALSE, shiftedHoliday |-> FALSE]

NoBody == PatchBody({}, LocalStr(0, 0, 0), 0, <<>>, FALSE, FALSE, FALSE)

\* no request answered yet
NoResponse ==
  Response("none", NoId, NoBody, "none", "none", NoBody.date,
           NoShift(NoBody.date), <<>>)

\* res.json({ success:true }) of POST /api/settings/scheduling
SettingsResponse ==
  Response("settings", NoId, NoBody, "ok", "none", NoBody.date,
           NoShift(NoBody.date), <<>>)

----------------------------------------------------------------------------
(* POST /api/schedules, run to completion *)

\* what the handler answers and persists for body against the current store
PostOutcome(body) ==
  LET sh == ShiftDate(body.date, body.override, body.core_hours_override,
                      settings.holidays)
      date == sh.date
      checked == Len(body.installers) > 0 /\ body.man_hours # 0
      gen == generateSlices(date, body.man_hours, body.installers,
                            body.core_hours_override, body.override, settings)
      val == IF checked /\ ~body.override
             THEN ValidateSlices(gen.slices, body.installers, NoId,
                                 schedule_slices, schedules,
                                 schedule_installers)
             ELSE "ok"
  IN IF checked /\ ~(body.override \/ body.override_availability)
        /\ AvailabilityRejects(date, body.man_hours, body.installers,
                               settings.availability)
     THEN Response("POST", NoId, body, "rejected", "AvailabilityConflict",
                   date, sh, <<>>)
     ELSE IF gen.threw
     THEN Response("POST", NoId, body, "rejected", "ConfigurationError",
                   date, sh, <<>>)
     ELSE IF val # "ok"
     THEN Response("POST", NoId, body, "rejected", val, date, sh, gen.slices)
     ELSE IF FirstDuplicate(body.installers) # 0
     THEN Response("POST", NoId, body, "rejected", "StorageError", date, sh,
                   gen.slices)
     ELSE Response("POST", nextId, body, "ok", "none", date, sh, gen.slices)

PostSchedule(body) ==
  LET r == PostOutcome(body)
  IN /\ last' = r
     /\ IF r.status = "ok"
        THEN /\ schedules' = schedules \cup
                  {ScheduleRow(nextId, r.date, body.man_hours,
                               body.core_hours_override, body.override,
                               body.override_availability)}
             /\ schedule_installers' =
                  schedule_installers \cup Links(nextId, body.installers)
             /\ schedule_slices' =
                  schedule_slices \o SliceRows(nextId, r.slices)
             /\ nextId' = nextId + 1
        ELSE IF r.kind = "StorageError"
        THEN \* the catch block answers 400; the rows inserted stay
             /\ schedules' = schedules \cup
                  {ScheduleRow(nextId, r.date, body.man_hours,
                               body.core_hours_override, body.override,
                               body.override_availability)}
             /\ schedule_installers' =
                  schedule_installers
                    \cup LinksBeforeDuplicate(nextId, body.installers)
             /\ nextId' = nextId + 1
             /\ UNCHANGED schedule_slices
        ELSE UNCHANGED <<schedules, schedule_installers, schedule_slices,
                         nextId>>
     /\ UNCHANGED <<tzOffset, settings, inflight>>

----------------------------------------------------------------------------
(* PATCH /api/schedules/:id, run to completion *)

JobOf(id) == CHOOSE s \in schedules : s.id = id

PatchOutcome(id, body) ==
  LET hasDate == "date" \in body.fields
      sh == IF hasDate
            THEN ShiftDate(body.date, body.override, body.core_hours_override,
                           settings.holidays)
            ELSE NoShift(body.date)
      effectiveDate == IF hasDate THEN sh.date ELSE JobOf(id).date
      checked == Len(body.installers) > 0 /\ body.man_hours # 0
      gen == generateSlices(effectiveDate, body.man_hours, body.installers,
                            body.core_hours_override, body.override, settings)
      val == IF checked /\ ~body.override
             THEN ValidateSlices(gen.slices, body.installers, id,
                                 schedule_slices, schedules,
                                 schedule_installers)
             ELSE "ok"
  IN IF checked /\ ~(body.override \/ body.override_availability)
        /\ AvailabilityRejects(effectiveDate, body.man_hours, body.installers,
                               settings.availability)
     THEN Response("PATCH", id, body, "rejected", "AvailabilityConflict",
                   effectiveDate, sh, <<>>)
     ELSE IF gen.threw
     THEN Response("PATCH", id, body, "rejected", "ConfigurationError",
                   effectiveDate, sh, <<>>)
     ELSE IF val # "ok"
     THEN Response("PATCH", id, body, "rejected", val, effectiveDate, sh,
                   gen.slices)
     ELSE IF "installers" \in body.fields /\ FirstDuplicate(body.installers) # 0
     THEN Response("PATCH", id, body, "rejected", "StorageError",
                   effectiveDate, sh, gen.slices)
     ELSE Response("PATCH", id, body, "ok", "none", effectiveDate, sh,
                   gen.slices)

\* an UPDATE that writes every column from the body, present or not
UpdatedRowOverwriting(job, body, date) ==
  [id |-> job.id, date |-> date, man_hours |-> body.man_hours,
   core_hours_override |-> body.core_hours_override,
   override_hours |-> body.override,
   override_availability |-> body.override_availability]

\* UPDATE schedules SET ... : only the columns whose property is present
UpdatedRow(job, body, date) ==
  [id |-> job.id,
   date |-> IF "date" \in body.fields THEN date ELSE job.date,
   man_hours |-> IF "man_hours" \in body.fields
                 THEN body.man_hours ELSE job.man_hours,
   core_hours_override |-> IF "core_hours_override" \in body.fields
                           THEN body.core_hours_override
                           ELSE job.core_hours_override,
   override_hours |-> IF "override" \in body.fields
                      THEN body.override ELSE job.override_hours,
   override_availability |-> IF "override_availability" \in body.fields
                             THEN body.override_availability
                             ELSE job.override_availability]

PatchSchedule(id, body) ==
  /\ \E s \in schedules : s.id = id
  /\ LET r == PatchOutcome(id, body)
     IN /\ last' = r
        /\ IF r.status = "ok"
           THEN /\ schedules' = (schedules \ {JobOf(id)})
                                  \cup {UpdatedRow(JobOf(id), body, r.date)}
                /\ schedule_installers' =
                     IF "installers" \in body.fields
                     THEN {l \in schedule_installers : l[1] # id}
                            \cup Links(id, body.installers)
                     ELSE schedule_installers
                /\ schedule_slices' =
                     IF Len(r.slices) > 0
                     THEN SelectSeq(schedule_slices,
                                    LAMBDA row : row.schedule_id # id)
                            \o SliceRows(id, r.slices)
                     ELSE schedule_slices
           ELSE IF r.kind = "StorageError"
           THEN \* the catch block answers 400 after the UPDATE, the DELETE
                \* of the links and the INSERTs before the failing one
                /\ schedules' = (schedules \ {JobOf(id)})
                                  \cup {UpdatedRow(JobOf(id), body, r.date)}
                /\ schedule_installers' =
                     {l \in schedule_installers : l[1] # id}
                       \cup LinksBeforeDuplicate(id, body.installers)
                /\ UNCHANGED schedule_slices
           ELSE UNCHANGED <<schedules, schedule_installers, schedule_slices>>
  /\ UNCHANGED <<tzOffset, settings, nextId, inflight>>

----------------------------------------------------------------------------
(* The availability editor (InstallersAvailability) and the settings API   *)

\* toggleOut(date, installerId) followed by the debounced save of the
\* editor's availability object through POST /api/settings/scheduling
toggleOut(day, installerId) ==
  LET old == Lookup(settings.availability, DateKey(day), InstKey(installerId))
      prevOut == \E e \in old : e.out
      prevHours == IF old = {} THEN {} ELSE (CHOOSE e \in old : TRUE).outHours
  IN /\ settings' =
          [settings EXCEPT !.availability =
             (settings.availability \ old)
               \cup {AvailEntry(DateKey(day), InstKey(installerId),
                                ~prevOut, prevHours)}]
     /\ last' = SettingsResponse
     /\ UNCHANGED <<tzOffset, schedules, schedule_installers, schedule_slices,
                    nextId, inflight>>

\* toggleOutHour(date, installerId, hour) followed by the debounced save
toggleOutHour(day, installerId, hour) ==
  LET old == Lookup(settings.availability, DateKey(day), InstKey(installerId))
      prevOut == \E e \in old : e.out
      prevHours == IF old = {} THEN {} ELSE (CHOOSE e \in old : TRUE).outHours
      outHours == IF hour \in prevHours THEN prevHours \ {hour}
                  ELSE prevHours \cup {hour}
  IN /\ settings' =
          [settings EXCEPT !.availability =
             (settings.availability \ old)
               \cup {AvailEntry(DateKey(day), InstKey(installerId),
                                prevOut, outHours)}]
     /\ last' = SettingsResponse
     /\ UNCHANGED <<tzOffset, schedules, schedule_installers, schedule_slices,
                    nextId, inflight>>

\* POST /api/settings/scheduling with a body that carries availability only:
\* the object is stored as it comes
PostAvailability(availability) ==
  /\ settings' = [settings EXCEPT !.availability = availability]
  /\ last' = SettingsResponse
  /\ UNCHANGED <<tzOffset, schedules, schedule_installers, schedule_slices,
                 nextId, inflight>>

----------------------------------------------------------------------------
(* Calendar used by the specifications: day 0 is a Monday *)

DayOf(week, weekday) == 7 * week + weekday

Thursday == DayOf(0, 3)

Friday == DayOf(0, 4)

Saturday == DayOf(0, 5)

Sunday == DayOf(0, 6)

Monday == DayOf(1, 0)

Tuesday == DayOf(1, 1)

\* the server runs in UTC, five hours west of it or ten hours east of it
TzOffsets == {0, Hours(5), -Hours(10)}

Installers == {1, 2}

EmptyStore ==
  /\ schedules = {}
  /\ schedule_installers = {}
  /\ schedule_slices = <<>>
  /\ nextId = 1
  /\ last = NoResponse
  /\ inflight = <<>>

----------------------------------------------------------------------------
(* SpecGen: the engine on single jobs.  The settings are drawn at the      *)
(* start; one job is created and then updated.                             *)

GenSettings ==
  {[coreStart |-> 8, coreEnd |-> 16, driveOut |-> d, driveBack |-> d,
    holidays |-> h, availability |-> {}] :
     d \in {0, 30}, h \in {{}, {Monday}}}

GenDates ==
  {LocalStr(Friday, 8, 0), LocalStr(Friday, 10, 30),
   LocalStr(Saturday, 8, 0), LocalStr(Monday, 8, 0)}

GenManHours == {Hours(7), Hours(20), Hours(600)}

GenInstallers == {<<1>>, <<1, 2>>}

GenPostBodies ==
  {PostBody(d, mh, ins, o, c, a) :
     d \in GenDates, mh \in GenManHours, ins \in GenInstallers,
     o \in BOOLEAN, c \in BOOLEAN, a \in BOOLEAN}

\* the frontend's update payloads: the edit form (everything but
\* core_hours_override), a move (date only) and a resize (man-hours only)
GenPatchBodies ==
  {PatchBody(AllFields \ {"core_hours_override"}, d, mh, ins, o, FALSE, FALSE) :
     d \in {LocalStr(Saturday, 8, 0), LocalStr(Tuesday, 8, 0)},
     mh \in {Hours(20)}, ins \in GenInstallers, o \in BOOLEAN}
  \cup
  {PatchBody({"date", "override", "override_availability"}, d, 0, <<>>,
             o, FALSE, FALSE) :
     d \in {LocalStr(Saturday, 8, 0)}, o \in BOOLEAN}
  \cup
  {PatchBody({"man_hours", "override", "override_availability"},
             NoBody.date, mh, <<>>, FALSE, FALSE, FALSE) :
     mh \in {Hours(7)}}

InitGen ==
  /\ tzOffset \in TzOffsets
  /\ settings \in GenSettings
  /\ EmptyStore

GenPost == \E body \in GenPostBodies : schedules = {} /\ PostSchedule(body)

GenPatch ==
  \E s \in schedules : \E body \in GenPatchBodies : PatchSchedule(s.id, body)

NextGen == GenPost \/ GenPatch

SpecGen == InitGen /\ [][NextGen]_vars

----------------------------------------------------------------------------
(* Spec: creates and updates, one after the other, against the persisted   *)
(* slices of other jobs.  Core hours 8 to 16, no drive time, no holiday;   *)
(* the server runs in UTC or ten hours east of it.                         *)

MaxJobs == 2

\* a morning job with and without the daily-limit override, and a job that
\* spills over to Monday
NormalBodies ==
  {PostBody(LocalStr(Friday, 8, 0), Hours(4), <<1>>, o, FALSE, FALSE) :
     o \in BOOLEAN}
  \cup
  {PostBody(LocalStr(Friday, 8, 0), Hours(12), <<1>>, FALSE, FALSE, FALSE)}

\* afternoon jobs outside the core-hour rules, around four hours long
BoundaryBodies ==
  {PostBody(LocalStr(Friday, 12, 0), mh, <<1>>, FALSE, TRUE, FALSE) :
     mh \in {Hours(4), Hours(4) + Tenth, Hours(4) + 2 * Tenth}}

PostBodies == NormalBodies \cup BoundaryBodies

\* the edit form, a move and a resize
PatchBodies ==
  {PatchBody(AllFields \ {"core_hours_override"}, LocalStr(Friday, 8, 0),
             Hours(4), <<1>>, FALSE, FALSE, FALSE),
   PatchBody(AllFields \ {"core_hours_override"}, LocalStr(Friday, 12, 0),
             Hours(8), <<1>>, FALSE, FALSE, FALSE),
   PatchBody({"date", "override", "override_availability"},
             LocalStr(Friday, 12, 0), 0, <<>>, FALSE, FALSE, FALSE),
   PatchBody({"man_hours", "override", "override_availability"},
             NoBody.date, Hours(8), <<>>, FALSE, FALSE, FALSE)}

Init ==
  /\ tzOffset \in {0, -Hours(10)}
  /\ settings = DefaultSettings
  /\ EmptyStore

Post == \E body \in PostBodies : nextId <= MaxJobs /\ PostSchedule(body)

Patch ==
  \E s \in schedules : \E body \in PatchBodies : PatchSchedule(s.id, body)

Next == Post \/ Patch

Spec == Init /\ [][Next]_vars

----------------------------------------------------------------------------
(* SpecAvail: one job created and updated while the availability editor    *)
(* and the settings API change the availability object.                    *)

AvailPostBodies ==
  {PostBody(d, mh, <<1>>, o, FALSE, a) :
     d \in {LocalStr(Friday, 8, 0), LocalStr(Friday, 6, 0)},
     mh \in {Hours(4), Hours(12)}, o \in BOOLEAN, a \in BOOLEAN}

AvailPatchBodies ==
  {PatchBody(AllFields \ {"core_hours_override"}, LocalStr(Friday, 8, 0),
             mh, <<1>>, FALSE, FALSE, a) :
     mh \in {Hours(4), Hours(12)}, a \in BOOLEAN}

\* availability objects keyed installer first, as the handlers read them
ApiAvailability ==
  {{AvailEntry(InstKey(1), DateKey(day), TRUE, {})} : day \in {Friday, Monday}}
  \cup
  {{AvailEntry(InstKey(1), DateKey(Friday), FALSE, {h})} : h \in {9, 10}}

InitAvail ==
  /\ tzOffset \in TzOffsets
  /\ settings = DefaultSettings
  /\ EmptyStore

AvailPost == \E body \in AvailPostBodies : schedules = {} /\ PostSchedule(body)

AvailPatch ==
  \E s \in schedules : \E body \in AvailPatchBodies :
    PatchSchedule(s.id, body)

EditorToggleOut == \E day \in {Friday, Monday} : toggleOut(day, 1)

EditorToggleOutHour == toggleOutHour(Friday, 1, 10)

ApiSaveAvailability == \E a \in ApiAvailability : PostAvailability(a)

NextAvail ==
  \/ AvailPost
  \/ AvailPatch
  \/ EditorToggleOut
  \/ EditorToggleOutHour
  \/ ApiSaveAvailability

SpecAvail == InitAvail /\ [][NextAvail]_vars

----------------------------------------------------------------------------
(* SpecConc: two POST /api/schedules requests in flight at once.  Every    *)
(* await on the database is a point where the other handler may run.  The  *)
(* handler reads only settings rows up to its first query of the slices,   *)
(* and nothing writes the settings here, so that part is one step.         *)

Clients == {1, 2}

Idle == [pc |-> "idle", body |-> NoBody, sh |-> NoShift(NoBody.date),
         slices |-> <<>>, pair |-> 0, id |-> NoId, i |-> 0]

ConcBodies ==
  {PostBody(LocalStr(Friday, 8, 0), Hours(8), <<1>>, FALSE, FALSE, FALSE),
   PostBody(LocalStr(Friday, 8, 0), Hours(4), <<1>>, FALSE, FALSE, FALSE),
   PostBody(LocalStr(Friday, 12, 0), Hours(4), <<1>>, FALSE, FALSE, FALSE),
   PostBody(LocalStr(Friday, 8, 0), Hours(24), <<1, 2>>, FALSE, FALSE, FALSE)}

InitConc ==
  /\ tzOffset \in TzOffsets
  /\ settings = DefaultSettings
  /\ schedules = {}
  /\ schedule_installers = {}
  /\ schedule_slices = <<>>
  /\ nextId = 1
  /\ last = NoResponse
  /\ inflight = [c \in Clients |-> Idle]

Reply(c, status, kind) ==
  LET r == inflight[c]
  IN Response("POST", r.id, r.body, status, kind, r.sh.date, r.sh, r.slices)

\* date shift, availability enforcement and generateSlices
ConcStart(c, body) ==
  /\ inflight[c].pc = "idle"
  /\ LET sh == ShiftDate(body.date, body.override, body.core_hours_override,
                         settings.holidays)
         checked == Len(body.installers) > 0 /\ body.man_hours # 0
         gen == generateSlices(sh.date, body.man_hours, body.installers,
                               body.core_hours_override, body.override,
                               settings)
         rec == [Idle EXCEPT !.body = body, !.sh = sh]
     IN IF checked /\ ~(body.override \/ body.override_availability)
           /\ AvailabilityRejects(sh.date, body.man_hours, body.installers,
                                  settings.availability)
        THEN /\ inflight' = [inflight EXCEPT ![c] = [rec EXCEPT !.pc = "done"]]
             /\ last' = Response("POST", NoId, body, "rejected",
                                 "AvailabilityConflict", sh.date, sh, <<>>)
        ELSE IF gen.threw
        THEN /\ inflight' = [inflight EXCEPT ![c] = [rec EXCEPT !.pc = "done"]]
             /\ last' = Response("POST", NoId, body, "rejected",
                                 "ConfigurationError", sh.date, sh, <<>>)
        ELSE /\ inflight' =
                  [inflight EXCEPT ![c] =
                     [rec EXCEPT !.slices = gen.slices,
                                 !.pair = 1,
                                 !.pc = IF checked /\ ~body.override
                                           /\ Len(gen.slices) > 0
                                        THEN "validate" ELSE "insert"]]
             /\ last' = last
  /\ UNCHANGED <<tzOffset, settings, schedules, schedule_installers,
                 schedule_slices, nextId>>

\* one "await db.all(...)" of the validation loops and the tests on its rows
ConcValidate(c) ==
  LET r == inflight[c]
      n == Len(r.body.installers)
      res == PairResult(r.slices[((r.pair - 1) \div n) + 1],
                        r.body.installers[((r.pair - 1) % n) + 1],
                        NoId, schedule_slices, schedules, schedule_installers)
  IN /\ r.pc = "validate"
     /\ IF res # "ok"
        THEN /\ inflight' = [inflight EXCEPT ![c].pc = "done"]
             /\ last' = Reply(c, "rejected", res)
        ELSE /\ inflight' =
                  [inflight EXCEPT ![c].pair = r.pair + 1,
                                   ![c].pc = IF r.pair < Len(r.slices) * n
                                             THEN "validate" ELSE "insert"]
             /\ last' = last
     /\ UNCHANGED <<tzOffset, settings, schedules, schedule_installers,
                    schedule_slices, nextId>>

\* INSERT INTO schedules
ConcInsertSchedule(c) ==
  LET r == inflight[c]
  IN /\ r.pc = "insert"
     /\ schedules' = schedules \cup
          {ScheduleRow(nextId, r.sh.date, r.body.man_hours,
                       r.body.core_hours_override, r.body.override,
                       r.body.override_availability)}
     /\ nextId' = nextId + 1
     /\ inflight' = [inflight EXCEPT ![c].id = nextId, ![c].i = 1,
                                     ![c].pc = "links"]
     /\ UNCHANGED <<tzOffset, settings, schedule_installers, schedule_slices,
                    last>>

\* one INSERT INTO schedule_installers
ConcInsertLink(c) ==
  LET r == inflight[c]
  IN /\ r.pc = "links"
     /\ r.i <= Len(r.body.installers)
     /\ schedule_installers' =
          schedule_installers \cup {<<r.id, r.body.installers[r.i]>>}
     /\ inflight' = [inflight EXCEPT ![c].i = r.i + 1]
     /\ UNCHANGED <<tzOffset, settings, schedules, schedule_slices, nextId,
                    last>>

\* the link loop is over: on to "Persist slices"
ConcLinksDone(c) ==
  LET r == inflight[c]
  IN /\ r.pc = "links"
     /\ r.i > Len(r.body.installers)
     /\ inflight' = [inflight EXCEPT ![c].i = 1, ![c].pc = "slices"]
     /\ UNCHANGED <<tzOffset, settings, schedules, schedule_installers,
                    schedule_slices, nextId, last>>

\* one INSERT INTO schedule_slices
ConcInsertSlice(c) ==
  LET r == inflight[c]
  IN /\ r.pc = "slices"
     /\ r.i <= Len(r.slices)
     /\ schedule_slices' =
          Append(schedule_slices,
                 SliceRow(r.id, r.i - 1, r.slices[r.i].start,
                          r.slices[r.i].hours))
     /\ inflight' = [inflight EXCEPT ![c].i = r.i + 1]
     /\ UNCHANGED <<tzOffset, settings, schedules, schedule_installers,
                    nextId, last>>

\* res.json(...) after the last insert
ConcRespond(c) ==
  LET r == inflight[c]
  IN /\ r.pc = "slices"
     /\ r.i > Len(r.slices)
     /\ inflight' = [inflight EXCEPT ![c].pc = "done"]
     /\ last' = Reply(c, "ok", "none")
     /\ UNCHANGED <<tzOffset, settings, schedules, schedule_installers,
                    schedule_slices, nextId>>

NextConc ==
  \E c \in Clients :
    \/ \E body \in ConcBodies : ConcStart(c, body)
    \/ ConcValidate(c)
    \/ ConcInsertSchedule(c)
    \/ ConcInsertLink(c)
    \/ ConcLinksDone(c)
    \/ ConcInsertSlice(c)
    \/ ConcRespond(c)

SpecConc == InitConc /\ [][NextConc]_vars

----------------------------------------------------------------------------
(* Properties *)

IsRequest == last.op \in {"POST", "PATCH"}

\* the handler reached the end of generateSlices without throwing
Generated ==
  IsRequest /\ last.kind \notin {"AvailabilityConflict", "ConfigurationError"}

RECURSIVE SumRange(_, _, _)
SumRange(seq, lo, hi) ==
  IF lo > hi THEN 0
  ELSE IF lo = hi THEN seq[lo].hours
  ELSE LET mid == (lo + hi) \div 2
       IN SumRange(seq, lo, mid) + SumRange(seq, mid + 1, hi)

SumDurations(slices) == SumRange(slices, 1, Len(slices))

\* the calendar date and the time of day an instant has on the server's clock
CalendarDay(t) == (t - tzOffset) \div TicksPerDay

TimeOfDay(t) == (t - tzOffset) % TicksPerDay

IsSatOrSun(day) == day % 7 \in {DayOf(0, 5), DayOf(0, 6)}

NonWorkingDay(day) == IsSatOrSun(day) \/ day \in settings.holidays

\* C1: on the normal path (overrideCoreHours false), with at least one
\* installer and any man-hours, the durations of the generated slices sum
\* to totalManHours / installerCount, also at the 100-iteration ceiling.
C1_SliceHoursSumToPerInstaller ==
  (/\ Generated
   /\ {"man_hours", "installers"} \subseteq last.body.fields
   /\ ~last.body.core_hours_override
   /\ Len(last.body.installers) >= 1)
  => SumDurations(last.slices) * Len(last.body.installers)
       = last.body.man_hours

\* C2: whenever overrideCoreHours is false, whatever the other two flags,
\* no slice produced for a create or update starts on a Saturday, a Sunday
\* or a configured holiday.
C2_NoSliceOnNonWorkingDay ==
  (IsRequest /\ ~last.body.core_hours_override)
  => \A i \in 1..Len(last.slices) :
       ~NonWorkingDay(CalendarDay(DateParse(last.slices[i].start)))

\* the first working day at or after day
FirstWorkingDay(day) ==
  CHOOSE k \in day..(day + 7 * (Cardinality(settings.holidays) + 1)) :
    /\ ~NonWorkingDay(k)
    /\ \A j \in day..(k - 1) : NonWorkingDay(j)

\* C10: whenever overrideCoreHours is false, whatever the other two flags,
\* the effective start is the requested date-time moved forward by whole
\* calendar days to the first day that is neither Saturday/Sunday nor a
\* holiday, time of day unchanged; a start on a working day stays.
C10_EffectiveStartIsFirstWorkingDay ==
  (IsRequest /\ "date" \in last.body.fields /\ ~last.body.core_hours_override)
  => LET requested == DateParse(last.body.date)
         effective == DateParse(last.date)
     IN /\ CalendarDay(effective) = FirstWorkingDay(CalendarDay(requested))
        /\ TimeOfDay(effective) = TimeOfDay(requested)

----------------------------------------------------------------------------------------------------------------------------------------
(* Daily cap and overlap, stated on the last response and the store.  The  *)
(* rows of other jobs are the same before and after the request: a create  *)
(* adds rows under a new id, an update rewrites the rows of its own id.    *)

EightHours == Hours(8)

\* the rows of other jobs the installer is linked to
OtherRows(installer_id) ==
  {k \in 1..Len(schedule_slices) :
     /\ schedule_slices[k].schedule_id # last.id
     /\ \E s \in schedules : s.id = schedule_slices[k].schedule_id
     /\ <<schedule_slices[k].schedule_id, installer_id>> \in schedule_installers}

RECURSIVE PersistedHours(_)
PersistedHours(ks) ==
  IF ks = {} THEN 0
  ELSE LET k == CHOOSE x \in ks : TRUE
       IN schedule_slices[k].duration_hours + PersistedHours(ks \ {k})

\* the pairs (generated slice, assigned installer)
Pairs ==
  {<<i, j>> : i \in 1..Len(last.slices), j \in 1..Len(last.body.installers)}

NewStart(p) == DateParse(last.slices[p[1]].start)

NewEnd(p) == NewStart(p) + last.slices[p[1]].hours

ExistingStart(k) == DateParse(schedule_slices[k].date)

ExistingEnd(k) == ExistingStart(k) + schedule_slices[k].duration_hours

\* the other jobs' rows of the pair's installer that start on the calendar
\* day on which the pair's slice starts
SameDayRows(p) ==
  {k \in OtherRows(last.body.installers[p[2]]) :
     CalendarDay(ExistingStart(k)) = CalendarDay(NewStart(p))}

DayTotal(p) == PersistedHours(SameDayRows(p)) + last.slices[p[1]].hours

ExceedsCap == \E p \in Pairs : DayTotal(p) > EightHours + Tenth

SomeOverlap ==
  \E p \in Pairs : \E k \in SameDayRows(p) :
    ExistingStart(k) < NewEnd(p) /\ NewStart(p) < ExistingEnd(k)

RejectedWith(kind) == last.status = "rejected" /\ last.kind = kind

\* C3: with overrideDailyLimit false, a create or update request is rejected
\* (with DailyCapExceeded, says the claim; any rejection satisfies this
\* formula) whenever for some generated slice and assigned installer the
\* persisted hours of the installer's other jobs on the slice's calendar day
\* plus the slice's hours exceed the cap.
C3_CapExceededRejects ==
  (Generated /\ ~last.body.override /\ ExceedsCap)
  => last.status = "rejected"

\* C5: with overrideDailyLimit false, a request is rejected (with
\* OverlapConflict, says the claim; any rejection satisfies this formula)
\* whenever a generated slice and a persisted slice of another job of the
\* same installer on the same day satisfy existingStart < newEnd and
\* newStart < existingEnd.
C5_OverlapRejects ==
  (Generated /\ ~last.body.override /\ SomeOverlap)
  => last.status = "rejected"

\* the other jobs' rows the validation's query returns for the pair: those
\* whose stored start text carries the date written in the slice's start
CountedRows(p) ==
  {k \in OtherRows(last.body.installers[p[2]]) :
     schedule_slices[k].date.day = last.slices[p[1]].start.day}

CountedTotal(p) == PersistedHours(CountedRows(p)) + last.slices[p[1]].hours

CountedOverlap ==
  \E p \in Pairs : \E k \in CountedRows(p) :
    ExistingStart(k) < NewEnd(p) /\ NewStart(p) < ExistingEnd(k)

MaxTotalIs(x) ==
  /\ \E p \in Pairs : CountedTotal(p) = x
  /\ \A p \in Pairs : CountedTotal(p) <= x

----------------
(* Availability, stated on the last response and the settings *)

\* the request names installers and man-hours
HasWork ==
  IsRequest /\ Len(last.body.installers) > 0 /\ last.body.man_hours # 0

Assigned == {last.body.installers[j] : j \in 1..Len(last.body.installers)}

\* the record the availability editor keeps for the installer on the day
EditorRecord(installer_id, day) ==
  {e \in settings.availability :
     e.k1 = DateKey(day) /\ e.k2 = InstKey(installer_id)}

\* the record of the installer on the day in the shape the handlers read,
\* keyed installer, then date
ApiRecord(installer_id, day) ==
  {e \in settings.availability :
     e.k1 = InstKey(installer_id) /\ e.k2 = DateKey(day)}

\* the slices the generator yields for the effective start of the request
SlicesOfRequest ==
  generateSlices(last.date, last.body.man_hours, last.body.installers,
                 last.body.core_hours_override, last.body.override,
                 settings).slices

SliceDay(slice) == CalendarDay(DateParse(slice.start))

\* C7: with overrideAvailability false, a request is rejected with
\* AvailabilityConflict whenever an assigned installer has a record of the
\* availability editor (keyed date, then installer) marking them out all
\* day on the start day, even when overrideDailyLimit is set.
C7_OutAllDayRejects ==
  (/\ HasWork
   /\ ~last.body.override_availability
   /\ \E i \in Assigned :
        \E e \in EditorRecord(i, CalendarDay(DateParse(last.date))) : e.out)
  => RejectedWith("AvailabilityConflict")

\* C8: the availability check covers every generated slice: for a multi-day
\* job without overrideAvailability, an installer marked out all day on the
\* day of the second or a later slice makes the request rejected with
\* AvailabilityConflict.  The records are those the handlers can read.
C8_OutOnSpilloverDayRejects ==
  (/\ HasWork
   /\ ~last.body.override_availability
   /\ \E n \in 2..Len(SlicesOfRequest) : \E i \in Assigned :
        \E e \in ApiRecord(i, SliceDay(SlicesOfRequest[n])) : e.out)
  => RejectedWith("AvailabilityConflict")

\* some outHours entry of an assigned installer on the first slice's day is
\* an integer hour h with sliceStart <= h < sliceStart + perInstallerHours
HourInFirstSlice ==
  LET first == SlicesOfRequest[1]
      sliceStart == TimeOfDay(DateParse(first.start))
      n == Len(last.body.installers)
  IN \E i \in Assigned : \E e \in ApiRecord(i, SliceDay(first)) :
       \E h \in e.outHours :
         /\ sliceStart <= Hours(h)
         /\ Hours(h) * n < sliceStart * n + last.body.man_hours

\* C9: with overrideAvailability false and no assigned installer out all
\* day, the request is rejected with AvailabilityConflict exactly when the
\* outHours of an assigned installer for the first slice's day contain an
\* integer hour h with sliceStart <= h < sliceStart + perInstallerClockHours,
\* sliceStart being the start of the generated first slice.  The records are
\* those the handlers can read, and overrideDailyLimit is not set.
C9_OutHoursRejectExactly ==
  (/\ HasWork
   /\ ~last.body.override_availability
   /\ ~last.body.override
   /\ Len(SlicesOfRequest) > 0
   /\ \A i \in Assigned :
        \A e \in ApiRecord(i, SliceDay(SlicesOfRequest[1])) : ~e.out)
  => (RejectedWith("AvailabilityConflict") <=> HourInFirstSlice)

----------------------------------------------------------------------------
(* The persisted assignments of an installer *)

\* the rows of the jobs the installer is linked to
RowsOf(installer_id) ==
  {k \in 1..Len(schedule_slices) :
     /\ \E s \in schedules : s.id = schedule_slices[k].schedule_id
     /\ <<schedule_slices[k].schedule_id, installer_id>> \in schedule_installers}

RowStart(k) == DateParse(schedule_slices[k].date)

RowEnd(k) == RowStart(k) + schedule_slices[k].duration_hours

DayHours(installer_id, day) ==
  PersistedHours({k \in RowsOf(installer_id) : CalendarDay(RowStart(k)) = day})

\* C6: two create requests without overrideDailyLimit for the same installer
\* and day, handled concurrently, behave as if validation and persistence
\* of each were one atomic unit: in no reachable state do the persisted
\* slices give the installer more than 8 clock-hours (8.0001 with the
\* tolerance) on that day or two overlapping windows.
C6_ConcurrentRequestsKeepCap ==
  \A i \in Installers :
    /\ \A k \in RowsOf(i) :
         DayHours(i, CalendarDay(RowStart(k))) <= EightHours + Tenth
    /\ \A k1, k2 \in RowsOf(i) :
         (schedule_slices[k1].schedule_id # schedule_slices[k2].schedule_id)
         => ~(RowStart(k1) < RowEnd(k2) /\ RowStart(k2) < RowEnd(k1))

----------------------------------------------------------------------------
(* SpecShift: the date shift of single requests.  Holidays are saved as    *)
(* the settings value before the job is created and then updated.          *)

ShiftSettings ==
  {[DefaultSettings EXCEPT !.holidays = h] : h \in {{}, {Monday}, {Friday}}}

ShiftDates ==
  {LocalStr(Thursday, 20, 0), LocalStr(Friday, 8, 0), LocalStr(Saturday, 8, 0),
   LocalStr(Sunday, 20, 0), LocalStr(Monday, 8, 0)}

ShiftPostBodies ==
  {PostBody(d, Hours(4), <<1>>, o, c, FALSE) :
     d \in ShiftDates, o \in BOOLEAN, c \in BOOLEAN}

\* the edit form (no core_hours_override), and a move with its flags
ShiftPatchBodies ==
  {PatchBody(AllFields \ {"core_hours_override"}, d, Hours(4), <<1>>,
             o, FALSE, FALSE) :
     d \in {LocalStr(Saturday, 8, 0), LocalStr(Monday, 8, 0)}, o \in BOOLEAN}
  \cup
  {PatchBody({"date", "core_hours_override"}, d, 0, <<>>, FALSE, c, FALSE) :
     d \in {LocalStr(Saturday, 8, 0), LocalStr(Friday, 8, 0)}, c \in BOOLEAN}

InitShift ==
  /\ tzOffset \in TzOffsets
  /\ settings \in ShiftSettings
  /\ EmptyStore

ShiftPost ==
  \E body \in ShiftPostBodies : schedules = {} /\ PostSchedule(body)

ShiftPatch ==
  \E s \in schedules : \E body \in ShiftPatchBodies :
    PatchSchedule(s.id, body)

NextShift == ShiftPost \/ ShiftPatch

SpecShift == InitShift /\ [][NextShift]_vars

\* original_date of the response: (shiftedWeekend||shiftedHoliday) ?
\* original_date : undefined, as a sequence of at most one date
OriginalDate(r) ==
  IF r.shiftedWeekend \/ r.shiftedHoliday THEN <<r.body.date>> ELSE <<>>

\* the request carries a date
HasDate == IsRequest /\ "date" \in last.body.fields

\* the calendar day and the UTC date of the requested start
RequestedDay == CalendarDay(DateParse(last.body.date))

\* C11: when overrideCoreHours is true the effective start is the requested
\* start unchanged, also on a weekend or a holiday, and the response reports
\* no shift: shiftedWeekend and shiftedHoliday false, no original_date.
C11_CoreOverrideLeavesStart ==
  (HasDate /\ last.body.core_hours_override)
  => /\ last.date = last.body.date
     /\ ~last.shiftedWeekend
     /\ ~last.shiftedHoliday
     /\ OriginalDate(last) = <<>>

\* a request on a non-working day with the core-hours override, accepted
C11_Witness ==
  /\ HasDate /\ last.body.core_hours_override /\ ~last.body.override
  /\ NonWorkingDay(RequestedDay)
  /\ last.status = "ok"
  /\ last.date = last.body.date

\* the response reports a shift
ShiftReported == last.shiftedWeekend \/ last.shiftedHoliday

\* the requested day is a holiday of the settings that is not a weekend day
WeekdayHoliday(day) == ~IsSatOrSun(day) /\ day \in settings.holidays

\* C12: a shift is reported exactly when the effective date differs from the
\* requested one; a reported shift has reason weekend when the requested day
\* is a Saturday or Sunday and reason holiday when it is a weekday holiday;
\* the two flags are never both true; the original date is returned exactly
\* when a shift happened.
C12_ShiftReportMatchesShift ==
  HasDate
  => /\ ShiftReported <=> (last.date # last.body.date)
     /\ ShiftReported => /\ last.shiftedWeekend <=> IsSatOrSun(RequestedDay)
                         /\ last.shiftedHoliday <=> WeekdayHoliday(RequestedDay)
     /\ ~(last.shiftedWeekend /\ last.shiftedHoliday)
     /\ (OriginalDate(last) # <<>>) <=> (last.date # last.body.date)

----------------------------------------------------------------------------
(* SpecSlice: slice generation of single requests under several core-hours *)
(* settings, among them drive times that use up the whole core window.     *)

\* the installer-first availability record: installer 1 out on the Friday
OutFriday == {AvailEntry(InstKey(1), DateKey(Friday), TRUE, {})}

\* drive times in minutes, each way: 240 + 240 is the whole 8 h window
SliceDriveTimes == {0, 30, 240}

SliceSettings ==
  {[coreStart |-> 8, coreEnd |-> 16, driveOut |-> d, driveBack |-> d,
    holidays |-> h, availability |-> a] :
     d \in SliceDriveTimes, h \in {{}, {Monday}}, a \in {{}, OutFriday}}

SliceManHours == {0, Hours(7), Hours(20)}

SlicePostBodies ==
  {PostBody(LocalStr(Friday, 8, 0), mh, ins, o, c, a) :
     mh \in SliceManHours, ins \in GenInstallers,
     o \in BOOLEAN, c \in BOOLEAN, a \in BOOLEAN}
  \cup
  {PostBody(d, mh, ins, FALSE, c, FALSE) :
     d \in {LocalStr(Friday, 6, 0), LocalStr(Friday, 10, 30),
            LocalStr(Friday, 17, 0)},
     mh \in SliceManHours, ins \in GenInstallers, c \in BOOLEAN}
  \cup
  {PostBody(LocalStr(Saturday, 10, 0), Hours(7), <<1>>, FALSE, TRUE, FALSE)}

\* the edit form, a change of hours and crew without a date, and a move
\* with the core-hours override
SlicePatchBodies ==
  {PatchBody(AllFields \ {"core_hours_override"}, LocalStr(Friday, 10, 30),
             Hours(20), <<1>>, FALSE, FALSE, FALSE),
   PatchBody({"man_hours", "installers"}, LocalStr(0, 0, 0), Hours(7), <<1>>,
             FALSE, FALSE, FALSE),
   PatchBody({"date", "man_hours", "installers", "core_hours_override"},
             LocalStr(Friday, 17, 0), 0, <<1>>, FALSE, TRUE, FALSE),
   PatchBody({"date", "man_hours", "installers", "core_hours_override"},
             LocalStr(Friday, 17, 0), Hours(7), <<1, 2>>, FALSE, TRUE, FALSE)}

InitSlice ==
  /\ tzOffset \in {0, -Hours(10)}
  /\ settings \in SliceSettings
  /\ EmptyStore

SlicePost ==
  \E body \in SlicePostBodies : schedules = {} /\ PostSchedule(body)

SlicePatch ==
  \E s \in schedules : \E body \in SlicePatchBodies :
    PatchSchedule(s.id, body)

NextSlice == SlicePost \/ SlicePatch

SpecSlice == InitSlice /\ [][NextSlice]_vars

\* the request asks for the core-hours override and names installers
OverridePath ==
  Generated /\ last.body.core_hours_override /\ Len(last.body.installers) >= 1

\* one slice at the effective start, man-hours / installer count long
SingleSlice ==
  <<Slice(last.date, last.body.man_hours \div Len(last.body.installers))>>

\* C13 as stated: on the override path (overrideCoreHours true) with at
\* least one installer the generator emits exactly one slice, starting at
\* the effective start and lasting totalManHours / installerCount, for
\* every totalManHours >= 0.
C13_SingleSliceAsStated == OverridePath => last.slices = SingleSlice

\* C13: on the override path with at least one installer the generator
\* emits exactly one slice, starting at the effective start and lasting
\* totalManHours / installerCount, neither split by day nor clamped to the
\* window, for every totalManHours > 0; with totalManHours 0 it emits none.
C13_SingleSlice ==
  OverridePath
  => IF last.body.man_hours > 0 THEN last.slices = SingleSlice
                                ELSE last.slices = <<>>

\* seven hours from Friday 17:00, after the core hours, in one slice
C13_Witness ==
  /\ OverridePath
  /\ last.status = "ok"
  /\ last.body.man_hours = Hours(7)
  /\ last.body.installers = <<1>>
  /\ last.body.date = LocalStr(Friday, 17, 0)
  /\ last.slices = <<Slice(LocalStr(Friday, 17, 0), Hours(7))>>

\* the request does not ask for the core-hours override
NormalPath == IsRequest /\ ~last.body.core_hours_override

\* rejected as a configuration error, nothing generated and nothing stored
\* beyond what the store held for the job before
ConfigurationRejected ==
  /\ last.status = "rejected"
  /\ last.kind = "ConfigurationError"
  /\ last.slices = <<>>
  /\ last.op = "POST" => schedules = {} /\ schedule_slices = <<>>

\* C14: on the normal path a request with at least one installer and
\* positive man-hours is rejected with ConfigurationError whenever
\* (coreEnd - coreStart) - driveOut/60 - driveReturn/60 <= 0, the boundary
\* of exactly 0 included, and no slice is generated.
C14_NoWorkingTimeRejects ==
  (NormalPath /\ HasWork /\ NoWorkingTime(settings)) => ConfigurationRejected

\* the three tables
store == <<schedules, schedule_installers, schedule_slices>>

\* C15: ConfigurationError is fatal and comes first: when the core window
\* minus travel is not positive and overrideCoreHours is false, no create or
\* update request with work to place succeeds or changes the store, whatever
\* overrideDailyLimit, overrideAvailability, the installers and the
\* availability records; the failure reported is ConfigurationError.
C15_ConfigurationErrorIsFatal ==
  [][(NormalPath' /\ HasWork' /\ NoWorkingTime(settings'))
     => /\ last'.status = "rejected"
        /\ last'.kind = "ConfigurationError"
        /\ UNCHANGED store]_vars

\* the request ran the day-by-day loop of generateSlices: the generator
\* takes it when neither the core-hours nor the daily-limit flag is set
LoopPath == Generated /\ ~last.body.core_hours_override /\ ~last.body.override

SliceStart(slice) == DateParse(slice.start)

\* the travel-reserved window of a day, as times of day
WindowStart == Hours(settings.coreStart) + settings.driveOut * TicksPerMinute

WindowEnd == Hours(settings.coreEnd) - settings.driveBack * TicksPerMinute

C17_GreedySpillover ==
  LoopPath
  => /\ \A i \in 1..(Len(last.slices) - 1) :
          TimeOfDay(SliceStart(last.slices[i])) + last.slices[i].hours
            = WindowEnd
     /\ \A i \in 2..Len(last.slices) :
          /\ TimeOfDay(SliceStart(last.slices[i])) = WindowStart
          /\ SliceDay(last.slices[i])
               = FirstWorkingDay(SliceDay(last.slices[i - 1]) + 1)

\* the effective start of the request, as an instant
EffectiveStart == DateParse(last.date)

\* the first slice was emitted on the first day the loop iterated over
FirstSliceOnFirstDay ==
  SliceDay(last.slices[1]) = CalendarDay(EffectiveStart)

----------------------------------------------------------------------------
(* SpecSliceLoop: the while loop of generateSlices, one pass a step.       *)
(* inflight holds the call: its position, the loop variables and the       *)
(* number of passes made.                                                  *)

LoopSettings ==
  {[coreStart |-> 8, coreEnd |-> 16, driveOut |-> d, driveBack |-> d,
    holidays |-> h, availability |-> {}] :
     d \in {0, 30, 210}, h \in {{}, {Monday}, {Friday, Monday, Tuesday}}}

LoopDates ==
  {LocalStr(Friday, 6, 0), LocalStr(Friday, 10, 30), LocalStr(Friday, 17, 0),
   LocalStr(Saturday, 10, 0)}

\* hours per installer
LoopHours == {Hours(7), Hours(20), Hours(600)}

NoCall == [pc |-> "idle"]

InitSliceLoop ==
  /\ tzOffset \in {0, -Hours(10)}
  /\ settings \in LoopSettings
  /\ schedules = {}
  /\ schedule_installers = {}
  /\ schedule_slices = <<>>
  /\ nextId = 1
  /\ last = NoResponse
  /\ inflight = NoCall

\* let remaining, idx, cursor and the alignment to core start
LoopEnter ==
  /\ inflight.pc \in {"idle", "done"}
  /\ ~NoWorkingTime(settings)
  /\ \E startISO \in LoopDates, perClockTotal \in LoopHours :
       LET cursor0 == DateParse(startISO)
           cursor == IF GetHours(cursor0) < settings.coreStart
                     THEN SetHours(cursor0, settings.coreStart) ELSE cursor0
       IN inflight' = [pc |-> "loop", startISO |-> startISO, passes |-> 0,
                       st |-> LoopState(perClockTotal, 0, cursor, <<>>)]
  /\ UNCHANGED <<tzOffset, settings, schedules, schedule_installers,
                 schedule_slices, nextId, last>>

\* the loop condition holds: one pass through the body
LoopPass ==
  /\ inflight.pc = "loop"
  /\ LoopRuns(inflight.st)
  /\ inflight' = [inflight EXCEPT
                    !.st = LoopBody(inflight.st, inflight.startISO, settings),
                    !.passes = inflight.passes + 1]
  /\ UNCHANGED <<tzOffset, settings, schedules, schedule_installers,
                 schedule_slices, nextId, last>>

\* the loop condition fails: return slices
LoopExit ==
  /\ inflight.pc = "loop"
  /\ ~LoopRuns(inflight.st)
  /\ inflight' = [inflight EXCEPT !.pc = "done"]
  /\ UNCHANGED <<tzOffset, settings, schedules, schedule_installers,
                 schedule_slices, nextId, last>>

NextSliceLoop == LoopEnter \/ LoopPass \/ LoopExit

\* the handler runs the loop without yielding: a pass or the return that
\* can be taken is taken
SpecSliceLoop ==
  /\ InitSliceLoop
  /\ [][NextSliceLoop]_vars
  /\ WF_vars(LoopPass)
  /\ WF_vars(LoopExit)

\* C19: slice generation always terminates: for every configuration,
\* start, holiday set and total the loop makes at most 100 passes, a skipped
\* non-working day counting as a pass, and then returns.
C19_LoopTerminates ==
  /\ [](inflight.pc = "loop" => inflight.passes <= MaxIter)
  /\ (inflight.pc = "loop") ~> (inflight.pc = "done")

\* the loop stopped at the ceiling with hours left, skipped days among its
\* passes
C19_Witness ==
  /\ inflight.pc = "done"
  /\ inflight.passes = MaxIter
  /\ inflight.st.remaining > 0
  /\ Len(inflight.st.slices) < MaxIter

----------------------------------------------------------------------------
(* SpecShiftLoop: the while (true) loop of the date shift, one test a step. *)
(* inflight holds the position, the date d and the number of days added.   *)

ShiftLoopHolidays == {{}, {Monday}, {Friday}, {Friday, Monday, Tuesday}}

InitShiftLoop ==
  /\ tzOffset \in TzOffsets
  /\ settings \in {[DefaultSettings EXCEPT !.holidays = h] :
                     h \in ShiftLoopHolidays}
  /\ schedules = {}
  /\ schedule_installers = {}
  /\ schedule_slices = <<>>
  /\ nextId = 1
  /\ last = NoResponse
  /\ inflight = NoCall

\* the test of the loop: neither Saturday nor Sunday nor a listed holiday
ShiftBreaks(d) ==
  ~IsWeekendDow(GetDay(d)) /\ ~(ISODay(d) \in settings.holidays)

\* a request without override flags: the loop is entered for a weekend day
\* or a holiday, and not at all otherwise
ShiftEnter ==
  /\ inflight.pc \in {"idle", "done"}
  /\ \E date \in ShiftDates :
       LET d == DateParse(date)
       IN inflight' = [pc |-> IF IsWeekendDow(GetDay(d))
                                 \/ ISODay(d) \in settings.holidays
                              THEN "loop" ELSE "done",
                       d |-> d, steps |-> 0]
  /\ UNCHANGED <<tzOffset, settings, schedules, schedule_installers,
                 schedule_slices, nextId, last>>

\* d.setDate(d.getDate() + 1)
ShiftAdvance ==
  /\ inflight.pc = "loop"
  /\ ~ShiftBreaks(inflight.d)
  /\ inflight' = [inflight EXCEPT !.d = AddDay(inflight.d),
                                  !.steps = inflight.steps + 1]
  /\ UNCHANGED <<tzOffset, settings, schedules, schedule_installers,
                 schedule_slices, nextId, last>>

\* break
ShiftBreak ==
  /\ inflight.pc = "loop"
  /\ ShiftBreaks(inflight.d)
  /\ inflight' = [inflight EXCEPT !.pc = "done"]
  /\ UNCHANGED <<tzOffset, settings, schedules, schedule_installers,
                 schedule_slices, nextId, last>>

NextShiftLoop == ShiftEnter \/ ShiftAdvance \/ ShiftBreak

\* the handler runs the loop without yielding
SpecShiftLoop ==
  /\ InitShiftLoop
  /\ [][NextShiftLoop]_vars
  /\ WF_vars(ShiftAdvance)
  /\ WF_vars(ShiftBreak)

\* a week for every holiday and one more
ShiftStepLimit == 7 * (Cardinality(settings.holidays) + 1)

----------------------------------------------------------------------------
(* SpecEdit: one job created and then edited: the edit form, a drag-move that *)
(* sends only the date, a resize that sends only the man-hours, a change   *)
(* of crew, and a crew list that names an installer twice.                 *)

EditPostBodies ==
  {PostBody(LocalStr(Friday, 8, 0), Hours(4), <<1>>, FALSE, FALSE, FALSE),
   PostBody(LocalStr(Friday, 8, 0), Hours(12), <<1>>, FALSE, FALSE, FALSE),
   PostBody(LocalStr(Friday, 8, 0), Hours(8), <<1, 1>>, FALSE, FALSE, FALSE),
   PostBody(LocalStr(Saturday, 8, 0), Hours(4), <<1>>, FALSE, FALSE, FALSE),
   PostBody(LocalStr(Monday, 12, 0), Hours(4), <<2>>, FALSE, FALSE, FALSE),
   PostBody(LocalStr(Friday, 8, 0), Hours(6), <<1>>, TRUE, FALSE, FALSE)}

EditPatchBodies ==
  {PatchBody(AllFields \ {"core_hours_override"}, LocalStr(Friday, 8, 0),
             Hours(4), <<1>>, FALSE, FALSE, FALSE),
   PatchBody(AllFields \ {"core_hours_override"}, LocalStr(Monday, 8, 0),
             Hours(4), <<1>>, FALSE, FALSE, FALSE),
   PatchBody(AllFields \ {"core_hours_override"}, LocalStr(Friday, 8, 0),
             Hours(12), <<1>>, FALSE, FALSE, FALSE),
   PatchBody(AllFields \ {"core_hours_override"}, LocalStr(Friday, 8, 0),
             Hours(8), <<1, 1>>, FALSE, FALSE, FALSE),
   PatchBody(AllFields \ {"core_hours_override"}, LocalStr(Friday, 8, 0),
             0, <<1>>, FALSE, FALSE, FALSE),
   PatchBody({"date"}, LocalStr(Monday, 8, 0), 0, <<>>, FALSE, FALSE, FALSE),
   PatchBody({"man_hours"}, NoBody.date, Hours(8), <<>>, FALSE, FALSE, FALSE),
   PatchBody({"installers"}, NoBody.date, 0, <<2>>, FALSE, FALSE, FALSE),
   PatchBody({"man_hours", "installers"}, NoBody.date, Hours(12), <<1>>,
             FALSE, FALSE, FALSE)}

InitEdit ==
  /\ tzOffset \in {0, Hours(5)}
  /\ settings = DefaultSettings
  /\ EmptyStore

EditPost ==
  \E body \in EditPostBodies : schedules = {} /\ PostSchedule(body)

EditPatch ==
  \E s \in schedules : \E body \in EditPatchBodies :
    PatchSchedule(s.id, body)

NextEdit == EditPost \/ EditPatch

SpecEdit == InitEdit /\ [][NextEdit]_vars

\* the slice rows of a job, in table order
SlicesOfJob(id) ==
  SelectSeq(schedule_slices, LAMBDA row : row.schedule_id = id)

LinksOfJob(id) == {l \in schedule_installers : l[1] = id}

\* C21: a create or update request that is rejected, for whatever reason,
\* leaves the schedules, installer links and slices as they were before
\* it; a request that succeeds has persisted the schedule, all its
\* installer links and its complete slice list.
C21_NoPartialCommit ==
  [][/\ (IsRequest' /\ last'.status = "rejected") => UNCHANGED store
     /\ (last'.op = "POST" /\ last'.status = "ok")
        => /\ \E job \in schedules' : job.id = last'.id
           /\ {l \in schedule_installers' : l[1] = last'.id}
                = Links(last'.id, last'.body.installers)
           /\ SelectSeq(schedule_slices',
                        LAMBDA row : row.schedule_id = last'.id)
                = SliceRows(last'.id, last'.slices)]_vars

\* the installers linked to a job, as a list
InstallersOfJob(id) ==
  LET ids == {l[2] : l \in LinksOfJob(id)}
  IN CHOOSE seq \in [1..Cardinality(ids) -> ids] :
       {seq[i] : i \in 1..Cardinality(ids)} = ids

\* the rows the generator yields for the persisted values of a job
RegeneratedRows(job) ==
  SliceRows(job.id,
            generateSlices(job.date, job.man_hours, InstallersOfJob(job.id),
                           job.core_hours_override, job.override_hours,
                           settings).slices)

\* C22: after every successful update, also one whose body carries only
\* the changed field, the persisted slices of the job are the list the
\* generator yields for the job's persisted date, man-hours, installers and
\* flags; no slice computed from earlier values remains.
C22_SlicesFollowTheJob ==
  (last.op = "PATCH" /\ last.status = "ok")
  => SlicesOfJob(last.id) = RegeneratedRows(JobOf(last.id))

----------------------------------------------------------------------------
(* SpecClock: a job edited with a date text that new Date() cannot parse,  *)
(* while the days pass.  inflight holds the wall clock of the process and  *)
(* the first answer given to each request body.                            *)

\* a date text that is no date: new Date(s).getTime() is NaN.  Its value
\* here lies before every working window, so that the comparisons
\* desired > workStart of the loop fail as they do for NaN; it is never
\* taken for the cursor
InvalidDate == DateStr(FALSE, -1, 0)

\* generateSlices with the clock: if (isNaN(cursor.getTime())) cursor = new Date()
generateSlicesNow(now, startISO, totalManHours, installerIds, coreOverrideFlag, override, cfg) ==
  IF Len(installerIds) = 0 \/ totalManHours = 0
  THEN [threw |-> FALSE, slices |-> <<>>]
  ELSE
    LET perClockTotal == totalManHours \div Len(installerIds)
        cursor0 == IF startISO = InvalidDate THEN now ELSE DateParse(startISO)
        cursor == IF GetHours(cursor0) < cfg.coreStart
                  THEN SetHours(cursor0, cfg.coreStart) ELSE cursor0
    IN IF ~coreOverrideFlag /\ ~override /\ NoWorkingTime(cfg)
       THEN [threw |-> TRUE, slices |-> <<>>]
       ELSE IF coreOverrideFlag \/ override
       THEN [threw |-> FALSE, slices |-> <<Slice(startISO, perClockTotal)>>]
       ELSE [threw |-> FALSE,
             slices |-> SliceLoop(perClockTotal, 0, cursor, <<>>, startISO, cfg)]

\* days the clock runs on after the start
MaxDays == 3

\* the process starts on the Thursday at 09:00
ClockStart == Thursday * TicksPerDay + Hours(9) + tzOffset

ClockPostBodies ==
  {PostBody(LocalStr(Friday, 8, 0), Hours(4), <<1>>, FALSE, FALSE, FALSE)}

\* the edit form with a valid date and with a date text that is no date
ClockPatchBodies ==
  {PatchBody(AllFields \ {"core_hours_override"}, d, mh, <<1>>,
             FALSE, FALSE, FALSE) :
     d \in {LocalStr(Friday, 8, 0), InvalidDate}, mh \in {Hours(4), Hours(12)}}

InitClock ==
  /\ tzOffset \in TzOffsets
  /\ settings = DefaultSettings
  /\ schedules = {}
  /\ schedule_installers = {}
  /\ schedule_slices = <<>>
  /\ nextId = 1
  /\ last = NoResponse
  /\ inflight = [now |-> ClockStart, first |-> {}]

\* the first answer to each body is kept
Remember(r) ==
  IF \E f \in inflight.first : f.body = r.body
  THEN inflight
  ELSE [inflight EXCEPT !.first = inflight.first \cup {r}]

\* a day passes
ClockTick ==
  /\ inflight.now < ClockStart + MaxDays * TicksPerDay
  /\ inflight' = [inflight EXCEPT !.now = inflight.now + TicksPerDay]
  /\ UNCHANGED <<tzOffset, settings, schedules, schedule_installers,
                 schedule_slices, nextId, last>>

ClockPost ==
  \E body \in ClockPostBodies : schedules = {} /\ PostSchedule(body)

\* PATCH /api/schedules/:id at the time inflight.now.  A date that is no
\* date skips the shift; the settings of this specification hold no
\* availability record and no installer is named twice
ClockPatch ==
  \E job \in schedules : \E body \in ClockPatchBodies :
    LET sh == IF body.date = InvalidDate THEN NoShift(body.date)
              ELSE ShiftDate(body.date, body.override,
                             body.core_hours_override, settings.holidays)
        gen == generateSlicesNow(inflight.now, sh.date, body.man_hours,
                                 body.installers, body.core_hours_override,
                                 body.override, settings)
        val == IF ~body.override
               THEN ValidateSlices(gen.slices, body.installers, job.id,
                                   schedule_slices, schedules,
                                   schedule_installers)
               ELSE "ok"
        r == IF gen.threw
             THEN Response("PATCH", job.id, body, "rejected",
                           "ConfigurationError", sh.date, sh, <<>>)
             ELSE IF val # "ok"
             THEN Response("PATCH", job.id, body, "rejected", val, sh.date,
                           sh, gen.slices)
             ELSE Response("PATCH", job.id, body, "ok", "none", sh.date, sh,
                           gen.slices)
    IN /\ last' = r
       /\ inflight' = Remember(r)
       /\ IF r.status = "ok"
          THEN /\ schedules' = (schedules \ {job})
                                 \cup {UpdatedRow(job, body, r.date)}
               /\ schedule_installers' =
                    {l \in schedule_installers : l[1] # job.id}
                      \cup Links(job.id, body.installers)
               /\ schedule_slices' =
                    IF Len(r.slices) > 0
                    THEN SelectSeq(schedule_slices,
                                   LAMBDA row : row.schedule_id # job.id)
                           \o SliceRows(job.id, r.slices)
                    ELSE schedule_slices
          ELSE UNCHANGED <<schedules, schedule_installers, schedule_slices>>
       /\ UNCHANGED <<tzOffset, settings, nextId>>

NextClock == ClockTick \/ ClockPost \/ ClockPatch

SpecClock == InitClock /\ [][NextClock]_vars

\* C23: slice generation and validation are deterministic: an update
\* repeated with the same start (valid or not), man-hours, installers and
\* flags, under the same configuration and the same assignments of other
\* jobs, is answered as the first time, whatever the wall clock shows.
C23_SameInputSameResult ==
  last.op = "PATCH"
  => \A f \in inflight.first :
       f.body = last.body
       => /\ f.status = last.status
          /\ f.kind = last.kind
          /\ f.slices = last.slices

----------------------------------------------------------------------------
(* SpecSnap: one POST /api/schedules whose reads of the settings table are *)
(* interleaved with the writes of one POST /api/settings/scheduling.  Each *)
(* await db.get / db.run is a step.  inflight holds the request (position, *)
(* body, shift result, values read) and the position of the writer.        *)

\* the settings the writer saves: core hours 10-18 and the Monday a holiday
NewSettings ==
  [DefaultSettings EXCEPT !.coreStart = 10, !.coreEnd = 18,
                          !.holidays = {Monday}]

\* the keys in the order generateSlices reads them
ReadKeys == <<"coreStart", "coreEnd", "driveOut", "driveBack", "holidays">>

\* the keys in the order the settings route writes them
WriteKeys == <<"coreStart", "coreEnd", "driveOut", "driveBack", "holidays">>

SnapBodies ==
  {PostBody(d, mh, <<1>>, FALSE, FALSE, FALSE) :
     d \in {LocalStr(Friday, 8, 0), LocalStr(Monday, 8, 0),
            LocalStr(Monday, 11, 0)},
     mh \in {Hours(4), Hours(12)}}

\* the value of a key in a settings record
ValueOf(cfg, key) ==
  CASE key = "coreStart" -> cfg.coreStart
    [] key = "coreEnd" -> cfg.coreEnd
    [] key = "driveOut" -> cfg.driveOut
    [] key = "driveBack" -> cfg.driveBack
    [] key = "holidays" -> cfg.holidays

\* a settings record with one key replaced
WithValue(cfg, key, v) ==
  CASE key = "coreStart" -> [cfg EXCEPT !.coreStart = v]
    [] key = "coreEnd" -> [cfg EXCEPT !.coreEnd = v]
    [] key = "driveOut" -> [cfg EXCEPT !.driveOut = v]
    [] key = "driveBack" -> [cfg EXCEPT !.driveBack = v]
    [] key = "holidays" -> [cfg EXCEPT !.holidays = v]

InitSnap ==
  /\ tzOffset = 0
  /\ settings = DefaultSettings
  /\ schedules = {}
  /\ schedule_installers = {}
  /\ schedule_slices = <<>>
  /\ nextId = 1
  /\ last = NoResponse
  /\ inflight = [pc |-> "idle", written |-> 0]

\* the request arrives: holidays are read and the date is shifted
SnapStart ==
  /\ inflight.pc = "idle"
  /\ \E body \in SnapBodies :
       inflight' = [pc |-> "reading", written |-> inflight.written,
                    body |-> body, read |-> 0, cfg |-> DefaultSettings,
                    sh |-> ShiftDate(body.date, body.override,
                                     body.core_hours_override,
                                     settings.holidays)]
  /\ UNCHANGED <<tzOffset, settings, schedules, schedule_installers,
                 schedule_slices, nextId, last>>

\* generateSlices reads its next settings row
SnapRead ==
  /\ inflight.pc = "reading"
  /\ inflight.read < Len(ReadKeys)
  /\ LET key == ReadKeys[inflight.read + 1]
     IN inflight' = [inflight EXCEPT
                       !.read = inflight.read + 1,
                       !.cfg = WithValue(inflight.cfg, key,
                                         ValueOf(settings, key))]
  /\ UNCHANGED <<tzOffset, settings, schedules, schedule_installers,
                 schedule_slices, nextId, last>>

\* the slices are generated from the values read, validated and persisted
SnapFinish ==
  /\ inflight.pc = "reading"
  /\ inflight.read = Len(ReadKeys)
  /\ LET body == inflight.body
         sh == inflight.sh
         gen == generateSlices(sh.date, body.man_hours, body.installers,
                               body.core_hours_override, body.override,
                               inflight.cfg)
         val == ValidateSlices(gen.slices, body.installers, NoId,
                               schedule_slices, schedules,
                               schedule_installers)
     IN IF gen.threw \/ val # "ok"
        THEN /\ last' = Response("POST", NoId, body, "rejected",
                                 IF gen.threw THEN "ConfigurationError"
                                 ELSE val,
                                 sh.date, sh, gen.slices)
             /\ UNCHANGED <<schedules, schedule_installers, schedule_slices,
                            nextId>>
        ELSE /\ last' = Response("POST", nextId, body, "ok", "none",
                                 sh.date, sh, gen.slices)
             /\ schedules' = schedules \cup
                  {ScheduleRow(nextId, sh.date, body.man_hours,
                               body.core_hours_override, body.override,
                               body.override_availability)}
             /\ schedule_installers' =
                  schedule_installers \cup Links(nextId, body.installers)
             /\ schedule_slices' =
                  schedule_slices \o SliceRows(nextId, gen.slices)
             /\ nextId' = nextId + 1
  /\ inflight' = [pc |-> "done", written |-> inflight.written]
  /\ UNCHANGED <<tzOffset, settings>>

\* the settings route writes its next key
SnapWrite ==
  /\ inflight.written < Len(WriteKeys)
  /\ LET key == WriteKeys[inflight.written + 1]
     IN settings' = WithValue(settings, key, ValueOf(NewSettings, key))
  /\ inflight' = [inflight EXCEPT !.written = inflight.written + 1]
  /\ UNCHANGED <<tzOffset, schedules, schedule_installers, schedule_slices,
                 nextId, last>>

NextSnap == SnapStart \/ SnapRead \/ SnapFinish \/ SnapWrite

SpecSnap == InitSnap /\ [][NextSnap]_vars

\* the answer the request gets when shift and slices use the one snapshot
AnswerUnder(cfg, body) ==
  LET sh == ShiftDate(body.date, body.override, body.core_hours_override,
                      cfg.holidays)
  IN [date |-> sh.date, shiftedWeekend |-> sh.shiftedWeekend,
      shiftedHoliday |-> sh.shiftedHoliday,
      slices |-> generateSlices(sh.date, body.man_hours, body.installers,
                                body.core_hours_override, body.override,
                                cfg).slices]

\* C24: each create request computes its date shift and its slices from a
\* single configuration snapshot: whatever a concurrent settings update
\* does, the answer is the one the settings before the update give or the
\* one the settings after it give, never a mix of the two versions.
C24_SingleSnapshot ==
  last.op = "POST"
  => \E cfg \in {DefaultSettings, NewSettings} :
       [date |-> last.date, shiftedWeekend |-> last.shiftedWeekend,
        shiftedHoliday |-> last.shiftedHoliday, slices |-> last.slices]
         = AnswerUnder(cfg, last.body)

----------------------------------------------------------------------------
(* SpecView: the calendar of the frontend.  A job is created and edited as *)
(* in SpecEdit, and the calendar builds the events of a job from the rows  *)
(* GET /api/schedules returns.  inflight holds what the calendar was given *)
(* and the events it built.                                                *)

\* Number(x.toFixed(2)) of a number of hours
ToFixed2(x) == ((x + (TicksPerHour \div 200)) \div (TicksPerHour \div 100))
               * (TicksPerHour \div 100)

\* the event of one slice
PartEvent(start, partHours, partIndex, partsTotal, remainingHours) ==
  [isTravel |-> FALSE, start |-> start, partHours |-> partHours,
   partIndex |-> partIndex, partsTotal |-> partsTotal,
   remainingHours |-> remainingHours]

\* a Drive Out or Drive Back event
TravelEvent(start) ==
  [isTravel |-> TRUE, start |-> start, partHours |-> 0, partIndex |-> 0,
   partsTotal |-> 0, remainingHours |-> 0]

\* accruedClock after the slices 1..i
RECURSIVE AccruedClock(_, _)
AccruedClock(slices, i) ==
  IF i = 0 THEN 0
  ELSE AccruedClock(slices, i - 1) + slices[i].duration_hours

\* the events pushed for slice idx + 1 = i by backendSlices.forEach
EventsOfSlice(slices, i, nInstallers, totalManHours, driveOut, driveReturn) ==
  LET start == DateParse(slices[i].date)
      partHours == slices[i].duration_hours
      consumedMan == AccruedClock(slices, i) * nInstallers
      remainingMan == IF totalManHours - consumedMan > 0
                      THEN totalManHours - consumedMan ELSE 0
  IN <<PartEvent(start, partHours, i, Len(slices), ToFixed2(remainingMan))>>
     \o (IF driveOut > 0
         THEN <<TravelEvent(start - driveOut * TicksPerMinute)>> ELSE <<>>)
     \o (IF driveReturn > 0
         THEN <<TravelEvent(start + partHours)>> ELSE <<>>)

RECURSIVE EventsUpTo(_, _, _, _, _, _)
EventsUpTo(slices, i, nInstallers, totalManHours, driveOut, driveReturn) ==
  IF i = 0 THEN <<>>
  ELSE EventsUpTo(slices, i - 1, nInstallers, totalManHours, driveOut,
                  driveReturn)
       \o EventsOfSlice(slices, i, nInstallers, totalManHours, driveOut,
                        driveReturn)

\* events.sort((a,b) => a.start - b.start): a stable insertion sort
RECURSIVE SortByStart(_)
SortByStart(events) ==
  IF Len(events) <= 1 THEN events
  ELSE LET init == SortByStart(SubSeq(events, 1, Len(events) - 1))
           e == events[Len(events)]
           before == SelectSeq(init, LAMBDA x : x.start <= e.start)
           after == SelectSeq(init, LAMBDA x : x.start > e.start)
       IN before \o <<e>> \o after

\* the branch of buildEvents for a job that comes with backend slices
buildEvents(job, installers, slices, driveOut, driveReturn) ==
  LET nInstallers == IF Len(installers) > 0 THEN Len(installers) ELSE 1
      events == EventsUpTo(slices, Len(slices), nInstallers, job.man_hours,
                           driveOut, driveReturn)
  IN IF Len(events) = 1
     THEN <<[events[1] EXCEPT !.partIndex = 1, !.partsTotal = 1,
                              !.remainingHours = 0]>>
     ELSE SortByStart(events)

\* minutes getDrivingTimeMinutes or the settings give for the drive
ViewDriveMinutes == {0, 30}

NoView == [job |-> NoId, man_hours |-> 0, installers |-> <<>>,
           slices |-> <<>>, events |-> <<>>]

InitView ==
  /\ tzOffset \in {0, Hours(5)}
  /\ settings = DefaultSettings
  /\ schedules = {}
  /\ schedule_installers = {}
  /\ schedule_slices = <<>>
  /\ nextId = 1
  /\ last = NoResponse
  /\ inflight = NoView

\* the calendar loads the jobs and builds the events of one with slices
ViewBuild ==
  /\ \E job \in schedules : \E drive \in ViewDriveMinutes :
       /\ Len(SlicesOfJob(job.id)) > 0
       /\ inflight' =
            [job |-> job.id, man_hours |-> job.man_hours,
             installers |-> InstallersOfJob(job.id),
             slices |-> SlicesOfJob(job.id),
             events |-> buildEvents(job, InstallersOfJob(job.id),
                                    SlicesOfJob(job.id), drive, drive)]
  /\ UNCHANGED <<tzOffset, settings, schedules, schedule_installers,
                 schedule_slices, nextId, last>>

NextView == EditPost \/ EditPatch \/ ViewBuild

SpecView == InitView /\ [][NextView]_vars

\* the events of the calendar that show work, without the travel events
DisplayedParts == SelectSeq(inflight.events, LAMBDA ev : ~ev.isTravel)

\* C25: for a job with n persisted slices and k installers the calendar
\* shows n parts in slice order, part i tagged partIndex = i and
\* partsTotal = n, and part i reports as remaining man-hours the job's
\* man-hours less k times the durations of the slices 1..i.
C25_PartsAndRemaining ==
  inflight.job # NoId
  => LET n == Len(inflight.slices)
         k == Len(inflight.installers)
     IN /\ Len(DisplayedParts) = n
        /\ \A i \in 1..n :
             /\ DisplayedParts[i].start = DateParse(inflight.slices[i].date)
             /\ DisplayedParts[i].partIndex = i
             /\ DisplayedParts[i].partsTotal = n
             /\ DisplayedParts[i].remainingHours
                  = inflight.man_hours - k * AccruedClock(inflight.slices, i)

----------------------------------------------------------------------------
(* The override report of an accepted request, under SpecSlice *)

\* the rule names the answer reports as overridden
Reported == {last.rule_overrides[i] : i \in 1..Len(last.rule_overrides)}

\* C26: the override report of an accepted request names core_hours
\* exactly when the request set its core-hour override, hours_or_overlap
\* exactly when it set its daily-limit override and availability exactly
\* when it set its availability override; the report changes nothing of
\* the result: an accepted create request has persisted the slices the
\* generator yields for its date, hours, crew and flags.
C26_OverrideReport ==
  (IsRequest /\ last.status = "ok")
  => /\ "core_hours" \in Reported <=> last.body.core_hours_override
     /\ "hours_or_overlap" \in Reported <=> last.body.override
     /\ "availability" \in Reported <=> last.body.override_availability
     /\ last.op = "POST"
        => SlicesOfJob(last.id)
             = SliceRows(last.id,
                         generateSlices(last.date, last.body.man_hours,
                                        last.body.installers,
                                        last.body.core_hours_override,
                                        last.body.override, settings).slices)

\* an accepted request with the daily-limit override alone, and its report
C26_Witness ==
  /\ IsRequest /\ last.status = "ok"
  /\ last.body.override /\ ~last.body.core_hours_override
  /\ ~last.body.override_availability
  /\ last.rule_overrides = <<"hours_or_overlap">>
  /\ Len(last.slices) > 0

----------------------------------------------------------------------------
(* SpecRetry: up to MaxJobs jobs of installer 1 on one Friday, created and *)
(* edited with and without the daily-limit and availability overrides, so  *)
(* that a rejected request can be sent again with an override set.         *)

RetrySettings ==
  {DefaultSettings, [DefaultSettings EXCEPT !.availability = OutFriday]}

\* a morning job, the same with installer 1 named twice, and an afternoon
\* job outside the core-hour rules that runs until 17:00
RetryPostBodies ==
  {PostBody(LocalStr(Friday, 8, 0), Hours(4), ins, o, FALSE, a) :
     ins \in {<<1>>, <<1, 1>>}, o \in BOOLEAN, a \in BOOLEAN}
  \cup
  {PostBody(LocalStr(Friday, 12, 0), Hours(5), <<1>>, o, TRUE, FALSE) :
     o \in BOOLEAN}

\* the edit form
RetryPatchBodies ==
  {PatchBody(AllFields \ {"core_hours_override"}, LocalStr(Friday, 8, 0),
             Hours(4), <<1>>, o, FALSE, a) :
     o \in BOOLEAN, a \in BOOLEAN}

InitRetry ==
  /\ tzOffset = 0
  /\ settings \in RetrySettings
  /\ EmptyStore

RetryPost ==
  \E body \in RetryPostBodies : nextId <= MaxJobs /\ PostSchedule(body)

RetryPatch ==
  \E s \in schedules : \E body \in RetryPatchBodies :
    PatchSchedule(s.id, body)

NextRetry == RetryPost \/ RetryPatch

SpecRetry == InitRetry /\ [][NextRetry]_vars

\* this step answers the request that was just rejected, sent again to the
\* same route with the daily-limit override set
ResentWithOverride ==
  /\ IsRequest /\ last.status = "rejected" /\ ~last.body.override
  /\ last'.op = last.op
  /\ last.op = "PATCH" => last'.id = last.id
  /\ last'.body = [last.body EXCEPT !.override = TRUE]

\* the same with the availability override set
ResentWithAvailabilityOverride ==
  /\ IsRequest /\ last.status = "rejected"
  /\ ~last.body.override_availability
  /\ last'.op = last.op
  /\ last.op = "PATCH" => last'.id = last.id
  /\ last'.body = [last.body EXCEPT !.override_availability = TRUE]

\* C27: a request rejected with DailyCapExceeded or OverlapConflict is
\* accepted when it is sent again against the same stored state with the
\* daily-limit override set, and a request rejected with
\* AvailabilityConflict is not rejected with AvailabilityConflict when it is
\* sent again with the availability override set.
C27_OverrideLiftsRejection ==
  [][/\ (ResentWithOverride
         /\ last.kind \in {"DailyCapExceeded", "OverlapConflict"})
        => last'.status = "ok"
     /\ (ResentWithAvailabilityOverride
         /\ last.kind = "AvailabilityConflict")
        => last'.kind # "AvailabilityConflict"]_vars

----------------------------------------------------------------------------
(* Sending the values of a job again, under SpecEdit *)

\* no override flag is set in a request body
NoOverrides(body) ==
  ~body.override /\ ~body.core_hours_override /\ ~body.override_availability

\* the last answer accepted, without overrides, the date, man-hours and
\* crew that job id has
AcceptedAsIs(id) ==
  /\ IsRequest /\ last.status = "ok" /\ last.id = id
  /\ {"date", "man_hours", "installers"} \subseteq last.body.fields
  /\ NoOverrides(last.body)

\* this step answers an update of job id that carries the date, man-hours
\* and crew the job has, without overrides
SameValuesSentAgain(id) ==
  /\ \E job \in schedules :
       /\ job.id = id
       /\ last'.body.date = job.date
       /\ last'.body.man_hours = job.man_hours
  /\ last'.op = "PATCH" /\ last'.id = id
  /\ {"date", "man_hours", "installers"} \subseteq last'.body.fields
  /\ Links(id, last'.body.installers) = LinksOfJob(id)
  /\ NoOverrides(last'.body)

----------------------------------------------------------------------------
(* SpecDrive: POST /api/driving-time and the drive_time_cache table.  An   *)
(* address is its sequence of words.  What OpenRouteService answers is an  *)
(* input of each lookup.  inflight holds the cache table and, as history,  *)
(* the pairs a non-forced lookup succeeded for and stored; last holds the  *)
(* answer of the last lookup.                                              *)

\* clean(addr): a "Ste" or "Suite" and the word after it are dropped
RECURSIVE Clean(_)
Clean(addr) ==
  IF addr = <<>> THEN <<>>
  ELSE IF Head(addr) \in {"Ste", "Suite"} /\ Len(addr) >= 2
  THEN Clean(SubSeq(addr, 3, Len(addr)))
  ELSE <<Head(addr)>> \o Clean(Tail(addr))

\* a row of drive_time_cache; distance in hundredths of a kilometre
CacheRow(origin, destination, minutes, distance) ==
  [origin |-> origin, destination |-> destination, minutes |-> minutes,
   distance |-> distance]

\* SELECT minutes, distance FROM drive_time_cache WHERE origin = ? AND ...
CacheGet(cache, origin, destination) ==
  {row \in cache : row.origin = origin /\ row.destination = destination}

\* INSERT OR REPLACE INTO drive_time_cache: the key is (origin, destination)
CachePut(cache, origin, destination, minutes, distance) ==
  (cache \ CacheGet(cache, origin, destination))
  \cup {CacheRow(origin, destination, minutes, distance)}

\* what the routing service answers to one request
RouteError == [kind |-> "error", seconds |-> 0, meters |-> 0]

NoSummary == [kind |-> "ok", seconds |-> 0, meters |-> 0]

RouteAnswers ==
  {RouteError, NoSummary,
   [kind |-> "ok", seconds |-> 1200, meters |-> 15000],
   [kind |-> "ok", seconds |-> 1510, meters |-> 18004]}

\* the answers to the request for the addresses as given, to the one for
\* the cleaned addresses and to the POST fallback, and the straight-line
\* estimate of the geocoded points
ExternalAnswers ==
  [original : RouteAnswers, cleaned : RouteAnswers,
   post : {RouteError, [kind |-> "ok", seconds |-> 1200, meters |-> 15000]},
   approxMinutes : {5}, straightKm : {40}]

\* the JSON answer of the route, with the request it answers
DriveResponse(origin, destination, force, status, originUse, destUse, minutes, distance, cached, external) ==
  [op |-> "driving-time", origin |-> origin, destination |-> destination,
   force |-> force, status |-> status, originUse |-> originUse,
   destUse |-> destUse, minutes |-> minutes, distance_km |-> distance,
   cached |-> cached, external |-> external]

NoLookup ==
  DriveResponse(<<>>, <<>>, FALSE, "none", <<>>, <<>>, 0, 0, FALSE, FALSE)

\* Math.round(seconds / 60)
RoundMinutes(seconds) == (seconds + 30) \div 60

\* Number((meters/1000).toFixed(2)), in hundredths of a kilometre
DistanceKm(meters) == (meters + 5) \div 10

\* the handler: [answer, cache] for a request against the cache table
DrivingTime(origin, destination, force, ext, cache) ==
  LET direct == IF force THEN {} ELSE CacheGet(cache, origin, destination)
      cached == IF direct = {} /\ ~force
                THEN CacheGet(cache, destination, origin) ELSE direct
      retried == ext.original.kind = "ok" /\ ext.original.seconds = 0
                 /\ (Clean(origin) # origin \/ Clean(destination) # destination)
      originUse == IF retried THEN Clean(origin) ELSE origin
      destUse == IF retried THEN Clean(destination) ELSE destination
      get == IF retried THEN ext.cleaned ELSE ext.original
      route == IF get.seconds = 0 /\ ext.post.kind = "ok" THEN ext.post
               ELSE get
      failed ==
        [answer |-> DriveResponse(origin, destination, force, "rejected",
                                  originUse, destUse, 0, 0, FALSE, TRUE),
         cache |-> cache]
      stored(minutes, distance) ==
        [answer |-> DriveResponse(origin, destination, force, "ok",
                                  originUse, destUse, minutes, distance,
                                  FALSE, TRUE),
         cache |-> CachePut(cache, originUse, destUse, minutes, distance)]
  IN IF cached # {}
     THEN LET row == CHOOSE r \in cached : TRUE
          IN [answer |-> DriveResponse(origin, destination, force, "ok",
                                       origin, destination, row.minutes,
                                       row.distance, TRUE, FALSE),
              cache |-> cache]
     ELSE IF ext.original.kind = "error" \/ get.kind = "error"
     THEN failed
     ELSE IF route.seconds = 0
     THEN stored(ext.approxMinutes, ext.straightKm * 100)
     ELSE stored(RoundMinutes(route.seconds), DistanceKm(route.meters))

\* a depot and a customer address with a suite number
DriveAddresses == {<<"Depot">>, <<"12", "Main", "St", "Ste", "4">>}

InitDrive ==
  /\ tzOffset = 0
  /\ settings = DefaultSettings
  /\ schedules = {}
  /\ schedule_installers = {}
  /\ schedule_slices = <<>>
  /\ nextId = 1
  /\ last = NoLookup
  /\ inflight = [cache |-> {}, stored |-> {}]

PostDrivingTime ==
  /\ \E origin \in DriveAddresses, destination \in DriveAddresses :
     \E force \in BOOLEAN, ext \in ExternalAnswers :
       LET r == DrivingTime(origin, destination, force, ext, inflight.cache)
       IN /\ origin # destination
          /\ last' = r.answer
          /\ inflight' =
               [cache |-> r.cache,
                stored |-> IF ~force /\ r.answer.status = "ok"
                              /\ ~r.answer.cached
                           THEN inflight.stored
                                \cup {<<origin, destination>>}
                           ELSE inflight.stored]
  /\ UNCHANGED <<tzOffset, settings, schedules, schedule_installers,
                 schedule_slices, nextId>>

NextDrive == PostDrivingTime

SpecDrive == InitDrive /\ [][NextDrive]_vars

\* the row of the cache table stored for a pair
StoredFor(origin, destination) ==
  CacheGet(inflight.cache, origin, destination)

\* C29: after a non-forced lookup for a pair has succeeded and stored a
\* result, every later non-forced lookup for the pair or the reversed pair
\* answers cached: true with the stored minutes and distance and makes no
\* external request; a lookup with force set never answers from the cache
\* and, when it succeeds, the cache row of its pair holds its result.
C29_CacheServesStoredPairs ==
  [][/\ (/\ ~last'.force
         /\ \/ <<last'.origin, last'.destination>> \in inflight.stored
            \/ <<last'.destination, last'.origin>> \in inflight.stored)
        => /\ last'.cached /\ ~last'.external
           /\ \E row \in StoredFor(last'.origin, last'.destination)
                         \cup StoredFor(last'.destination, last'.origin) :
                row.minutes = last'.minutes
                /\ row.distance = last'.distance_km
     /\ last'.force
        => /\ ~last'.cached
           /\ last'.status = "ok"
              => CacheGet(inflight'.cache, last'.origin, last'.destination)
                   = {CacheRow(last'.origin, last'.destination,
                               last'.minutes, last'.distance_km)}]_vars

----------------------------------------------------------------------------
(* The start of the slices against the requested start, under SpecSlice *)

\* C30: no generated slice starts earlier than the effective start of the
\* request; in particular, when the time of day of the effective start is
\* at or after coreEnd - driveReturn of the first day (17:00 with core hours
\* 8-16), no slice lies on that day before the requested time.
C30_NoSliceBeforeStart ==
  Generated
  => \A i \in 1..Len(last.slices) :
       SliceStart(last.slices[i]) >= EffectiveStart

----------------------------------------------------------------------------
(* backfillSlices, run once when the server starts *)

\* the variables of the while loop of backfillSlices
BackfillState(remaining, idx, cursor, rows) ==
  [remaining |-> remaining, idx |-> idx, cursor |-> cursor, rows |-> rows]

\* one pass of the loop for schedule id
BackfillBody(st, id, cfg) ==
  LET cursor == st.cursor
      dayKey == ISODay(cursor)
      isWeekend == IsWeekendDow(GetDay(cursor)) \/ dayKey \in cfg.holidays
      windowStart == IF st.idx > 0
                     THEN IF isWeekend THEN SetHours(cursor, 0)
                          ELSE SetHours(cursor, cfg.coreStart)
                     ELSE cursor
      windowEnd == IF isWeekend THEN AddDay(windowStart)
                   ELSE SetHours(windowStart, cfg.coreEnd)
      avail == windowEnd - windowStart
      sliceHours == Min(st.remaining, avail)
  IN IF avail <= 0
     THEN BackfillState(st.remaining, st.idx + 1, cursor + TicksPerDay,
                        st.rows)
     ELSE BackfillState(st.remaining - sliceHours, st.idx + 1,
                        AddDay(windowStart),
                        Append(st.rows,
                               SliceRow(id, st.idx, ToISOString(windowStart),
                                        sliceHours)))

\* while (remaining > 0 && idx < 100)
RECURSIVE BackfillLoop(_, _, _)
BackfillLoop(st, id, cfg) ==
  IF st.remaining > 0 /\ st.idx < MaxIter
  THEN BackfillLoop(BackfillBody(st, id, cfg), id, cfg)
  ELSE st

\* the rows backfillSlices inserts for a schedule that has no slice
BackfillRows(sched, installerIds, cfg) ==
  LET n == IF Len(installerIds) > 0 THEN Len(installerIds) ELSE 1
      perClockTotal == sched.man_hours \div n
      cursor0 == DateParse(sched.date)
      cursor == IF GetHours(cursor0) < cfg.coreStart
                THEN SetHours(cursor0, cfg.coreStart) ELSE cursor0
  IN IF perClockTotal = 0 THEN <<>>
     ELSE IF sched.core_hours_override \/ sched.override_hours
     THEN <<SliceRow(sched.id, 0, sched.date, perClockTotal)>>
     ELSE IF sched.date = InvalidDate THEN <<>>
     ELSE BackfillLoop(BackfillState(perClockTotal, 0, cursor, <<>>),
                       sched.id, cfg).rows

\* the installers linked to a schedule, as a list
LinkedInstallers(id) ==
  LET ids == {l[2] : l \in {x \in schedule_installers : x[1] = id}}
  IN CHOOSE seq \in [1..Cardinality(ids) -> ids] :
       {seq[i] : i \in 1..Cardinality(ids)} = ids

\* for (const sched of schedulesAll): the rows inserted for ids 1..k
RECURSIVE BackfillUpTo(_)
BackfillUpTo(k) ==
  IF k = 0 THEN <<>>
  ELSE BackfillUpTo(k - 1)
       \o (IF /\ \E s \in schedules : s.id = k
              /\ \A j \in 1..Len(schedule_slices) :
                   schedule_slices[j].schedule_id # k
           THEN BackfillRows(CHOOSE s \in schedules : s.id = k,
                             LinkedInstallers(k), settings)
           ELSE <<>>)

\* the server starts: every schedule without slices gets its backfill
Restart ==
  /\ schedule_slices' = schedule_slices \o BackfillUpTo(nextId - 1)
  /\ last' = Response("restart", NoId, NoBody, "ok", "none", NoBody.date,
                      NoShift(NoBody.date), <<>>)
  /\ UNCHANGED <<tzOffset, settings, schedules, schedule_installers, nextId,
                 inflight>>

----------------------------------------------------------------------------
(* DELETE /api/schedules/:id *)

\* the handler deletes the links and the schedule row.  The slices go only
\* by ON DELETE CASCADE, which SQLite applies when foreign keys are enabled
\* on the connection; the server never enables them, so whether the rows
\* go depends on the SQLite build: cascade is either outcome.
DeleteSchedule(id, cascade) ==
  /\ schedule_installers' = {l \in schedule_installers : l[1] # id}
  /\ schedules' = {s \in schedules : s.id # id}
  /\ schedule_slices' =
       IF cascade
       THEN SelectSeq(schedule_slices, LAMBDA row : row.schedule_id # id)
       ELSE schedule_slices
  /\ last' = Response("DELETE", id, NoBody, "ok", "none", NoBody.date,
                      NoShift(NoBody.date), <<>>)
  /\ UNCHANGED <<tzOffset, settings, nextId, inflight>>

----------------------------------------------------------------------------
(* SpecStore: up to MaxJobs jobs of two installers, created, updated with  *)
(* the edit form or with a body of one field, and deleted, one request     *)
(* after the other and none with an override; the server may restart       *)
(* between two requests.                                                   *)

StorePostBodies ==
  {PostBody(LocalStr(Friday, 8, 0), mh, <<i>>, FALSE, FALSE, FALSE) :
     mh \in {Hours(4), Hours(12)}, i \in Installers}
  \cup
  {PostBody(LocalStr(Friday, 17, 0), 0, <<1>>, FALSE, FALSE, FALSE)}

StorePatchBodies ==
  {PatchBody(AllFields \ {"core_hours_override"}, LocalStr(Friday, 8, 0),
             Hours(4), <<1>>, FALSE, FALSE, FALSE),
   PatchBody({"date"}, LocalStr(Monday, 8, 0), 0, <<>>, FALSE, FALSE, FALSE),
   PatchBody({"man_hours"}, NoBody.date, Hours(8), <<>>, FALSE, FALSE, FALSE),
   PatchBody({"man_hours", "installers"}, NoBody.date, Hours(12), <<1>>,
             FALSE, FALSE, FALSE),
   PatchBody({"installers"}, NoBody.date, 0, <<1>>, FALSE, FALSE, FALSE),
   PatchBody({"installers"}, NoBody.date, 0, <<2>>, FALSE, FALSE, FALSE)}

InitStore ==
  /\ tzOffset = 0
  /\ settings = DefaultSettings
  /\ EmptyStore

StorePost ==
  \E body \in StorePostBodies : nextId <= MaxJobs /\ PostSchedule(body)

StorePatch ==
  \E s \in schedules : \E body \in StorePatchBodies :
    PatchSchedule(s.id, body)

StoreDelete ==
  \E s \in schedules : \E cascade \in BOOLEAN : DeleteSchedule(s.id, cascade)

NextStore == StorePost \/ StorePatch \/ StoreDelete \/ Restart

SpecStore == InitStore /\ [][NextStore]_vars

\* C31: after any serial sequence of successful create, update and delete
\* requests of which none sets the daily-limit override, for every
\* installer and calendar day the persisted slices of the jobs the
\* installer is linked to sum to at most 8 clock-hours and no two of them,
\* of different jobs, overlap; updates that change only the installers,
\* only the date or only the man-hours are among the requests.
C31_SerialRequestsKeepCap ==
  \A i \in Installers :
    /\ \A k \in RowsOf(i) : DayHours(i, CalendarDay(RowStart(k))) <= EightHours
    /\ \A k1, k2 \in RowsOf(i) :
         (schedule_slices[k1].schedule_id # schedule_slices[k2].schedule_id)
         => ~(RowStart(k1) < RowEnd(k2) /\ RowStart(k2) < RowEnd(k1))

----------------------------------------------------------------------------
(* What an update leaves alone, under SpecEdit *)

\* this step is an accepted update of job, which becomes row
AcceptedUpdate(job, row) ==
  /\ last'.op = "PATCH" /\ last'.status = "ok" /\ last'.id = job.id
  /\ row.id = job.id

\* C32: an update leaves every field its body does not mention as it was:
\* man-hours, date and the three override flags are written only when
\* present, the installer links are replaced only when an installer list
\* is supplied, and an update without a date takes the persisted date of
\* the job as the effective start for slicing and validation.
C32_UnmentionedFieldsKept ==
  [][\A job \in schedules : \A row \in schedules' :
       AcceptedUpdate(job, row)
       => LET fields == last'.body.fields
          IN /\ "man_hours" \notin fields => row.man_hours = job.man_hours
             /\ "date" \notin fields => row.date = job.date
             /\ "override" \notin fields
                => row.override_hours = job.override_hours
             /\ "core_hours_override" \notin fields
                => row.core_hours_override = job.core_hours_override
             /\ "override_availability" \notin fields
                => row.override_availability = job.override_availability
             /\ "installers" \notin fields
                => {l \in schedule_installers' : l[1] = job.id}
                     = LinksOfJob(job.id)
             /\ "date" \notin fields
                => /\ last'.date = job.date
                   /\ last'.slices
                        = generateSlices(job.date, last'.body.man_hours,
                                         last'.body.installers,
                                         last'.body.core_hours_override,
                                         last'.body.override,
                                         settings).slices]_vars

\* a resize was accepted: the job has the new man-hours and its old date
C32_Witness ==
  /\ last.op = "PATCH" /\ last.status = "ok"
  /\ last.body.fields = {"man_hours"}
  /\ \E job \in schedules :
       /\ job.id = last.id
       /\ job.man_hours = last.body.man_hours
       /\ job.date = LocalStr(Friday, 8, 0)

----------------------------------------------------------------------------
(* The shape of the persisted slice lists, under SpecStore *)

\* C33: in every reachable state the slices of a schedule carry the
\* slice_index values 0..n-1 without gap or duplicate, their start times
\* increase strictly with slice_index, and for a schedule without the
\* core-hours and daily-limit flags no two slices lie on one calendar day.
C33_SliceListsWellFormed ==
  \A job \in schedules :
    LET rows == SlicesOfJob(job.id)
    IN /\ \A i \in 1..Len(rows) : rows[i].slice_index = i - 1
       /\ \A i \in 1..(Len(rows) - 1) :
            DateParse(rows[i].date) < DateParse(rows[i + 1].date)
       /\ (~job.core_hours_override /\ ~job.override_hours)
          => \A i \in 1..(Len(rows) - 1) :
               CalendarDay(DateParse(rows[i].date))
                 # CalendarDay(DateParse(rows[i + 1].date))

----------------------------------------------------------------------------
(* SpecBackfill: the server starts on a database holding one schedule     *)
(* that has no slice rows yet.                                             *)

BackfillSettings ==
  {DefaultSettings, [DefaultSettings EXCEPT !.holidays = {Monday}]}

\* the stored schedules: date, man-hours, installers and core-hours flag
StoredDates ==
  {LocalStr(Thursday, 8, 0), LocalStr(Friday, 8, 0), LocalStr(Friday, 12, 0),
   LocalStr(Friday, 17, 0)}

StoredManHours == {Hours(4), Hours(8), Hours(12), Hours(20)}

StoredInstallers == {<<1>>, <<1, 2>>}

InitBackfill ==
  /\ tzOffset \in TzOffsets
  /\ settings \in BackfillSettings
  /\ \E date \in StoredDates, mh \in StoredManHours, core \in BOOLEAN :
       schedules = {ScheduleRow(1, date, mh, core, FALSE, FALSE)}
  /\ \E installers \in StoredInstallers :
       schedule_installers = Links(1, installers)
  /\ schedule_slices = <<>>
  /\ nextId = 2
  /\ last = NoResponse
  /\ inflight = <<>>

NextBackfill == Restart

SpecBackfill == InitBackfill /\ [][NextBackfill]_vars

\* the start instants and durations of a list of slice rows
RowTimes(rows) ==
  [i \in 1..Len(rows) |-> <<DateParse(rows[i].date), rows[i].duration_hours>>]

\* what generateSlices yields for the stored values of a job
GeneratorTimes(job) ==
  RowTimes(SliceRows(job.id,
                     generateSlices(job.date, job.man_hours,
                                    LinkedInstallers(job.id), FALSE, FALSE,
                                    settings).slices))

\* C35: for a stored schedule without override flags, with drive times of
\* zero, the backfill at startup inserts the slices generateSlices yields
\* for the same values, and none of them starts on a Saturday, a Sunday or
\* a holiday.
C35_BackfillAgreesWithGenerator ==
  (last.op = "restart" /\ settings.driveOut = 0 /\ settings.driveBack = 0)
  => \A job \in schedules :
       (~job.core_hours_override /\ ~job.override_hours)
       => /\ RowTimes(SlicesOfJob(job.id)) = GeneratorTimes(job)
          /\ \A i \in 1..Len(SlicesOfJob(job.id)) :
               LET t == DateParse(SlicesOfJob(job.id)[i].date)
               IN /\ ~IsWeekendDow(GetDay(t))
                  /\ ISODay(t) \notin settings.holidays

----------------------------------------------------------------------------
(* SpecGenerators: the generateSlices of the create handler and the one of *)
(* the update handler, called with the same arguments under the same       *)
(* settings.  inflight holds the arguments and last the two results.       *)

TwinSettings ==
  {[coreStart |-> 8, coreEnd |-> 16, driveOut |-> d, driveBack |-> d,
    holidays |-> h, availability |-> {}] :
     d \in {0, 30, 240}, h \in {{}, {Monday}}}

TwinDates ==
  {LocalStr(Friday, 6, 0), LocalStr(Friday, 10, 30), LocalStr(Friday, 17, 0),
   LocalStr(Saturday, 10, 0)}

TwinManHours == {0, Hours(7), Hours(20), Hours(600)}

TwinInstallers == {<<>>, <<1>>, <<1, 2>>}

NoArguments ==
  [startISO |-> NoBody.date, totalManHours |-> 0, installerIds |-> <<>>,
   coreOverrideFlag |-> FALSE, override |-> FALSE]

NoResults ==
  [op |-> "none", create |-> [threw |-> FALSE, slices |-> <<>>],
   update |-> [threw |-> FALSE, slices |-> <<>>]]

InitGenerators ==
  /\ tzOffset \in TzOffsets
  /\ settings \in TwinSettings
  /\ schedules = {}
  /\ schedule_installers = {}
  /\ schedule_slices = <<>>
  /\ nextId = 1
  /\ last = NoResults
  /\ inflight = NoArguments

\* both generators are called, once, with one list of arguments
GenerateBoth ==
  \E startISO \in TwinDates, totalManHours \in TwinManHours,
     installerIds \in TwinInstallers, coreOverrideFlag \in BOOLEAN,
     override \in BOOLEAN :
    /\ last.op = "none"
    /\ inflight' = [startISO |-> startISO, totalManHours |-> totalManHours,
                    installerIds |-> installerIds,
                    coreOverrideFlag |-> coreOverrideFlag,
                    override |-> override]
    /\ last' = [op |-> "generate",
                create |-> generateSlices(startISO, totalManHours,
                                          installerIds, coreOverrideFlag,
                                          override, settings),
                update |-> generateSlicesPatch(startISO, totalManHours,
                                               installerIds, coreOverrideFlag,
                                               override, settings)]
    /\ UNCHANGED <<tzOffset, settings, schedules, schedule_installers,
                   schedule_slices, nextId>>

NextGenerators == GenerateBoth

SpecGenerators == InitGenerators /\ [][NextGenerators]_vars

\* C34: called with the same start, man-hours, installers and flags under
\* the same settings, the generator of the create handler and the one of
\* the update handler both throw or both return the same list of slices.
C34_GeneratorsAgree ==
  last.op = "generate"
  => /\ last.create.threw = last.update.threw
     /\ last.create.slices = last.update.slices

\* both were called, without a flag, for a job that takes several days
C34_Witness ==
  /\ last.op = "generate"
  /\ ~inflight.coreOverrideFlag /\ ~inflight.override
  /\ ~last.update.threw
  /\ Len(last.update.slices) >= 2

----------------------------------------------------------------------------
(* Rows and the schedule they belong to, under SpecStore *)

\* C36: in every reachable state each persisted slice row and each
\* installer link carries the id of an existing schedule; so after a
\* schedule is deleted no slice and no link with its id remains.
C36_NoOrphanRows ==
  /\ \A i \in 1..Len(schedule_slices) :
       \E s \in schedules : s.id = schedule_slices[i].schedule_id
  /\ \A l \in schedule_installers : \E s \in schedules : s.id = l[1]

----------------------------------------------------------------------------
(* SpecPending: pending jobs are staged, imported and promoted, and        *)
(* schedules are created directly.  inflight holds the pending_jobs table, *)
(* the job_number column of schedules and the argument of the latest       *)
(* request; a job number is a string, the empty one standing for an absent *)
(* one.                                                                    *)

JobNumbers == {"A", "B"}

NoJobNumber == ""

PendingRow(id, job_number, man_hours) ==
  [id |-> id, job_number |-> job_number, man_hours |-> man_hours]

PendingState(pending, nextPending, job_numbers, arg) ==
  [pending |-> pending, nextPending |-> nextPending,
   job_numbers |-> job_numbers, arg |-> arg]

\* SELECT id FROM schedules WHERE job_number = ?
ScheduledWith(job_number) ==
  {p \in inflight.job_numbers : p[2] = job_number}

\* SELECT * FROM pending_jobs WHERE job_number = ?
PendingWith(job_number) ==
  {pj \in inflight.pending : pj.job_number = job_number}

PendingResponse(op, id, status, kind) ==
  Response(op, id, NoBody, status, kind, NoBody.date, NoShift(NoBody.date),
           <<>>)

InitPending ==
  /\ tzOffset = 0
  /\ settings = DefaultSettings
  /\ schedules = {}
  /\ schedule_installers = {}
  /\ schedule_slices = <<>>
  /\ nextId = 1
  /\ last = NoResponse
  /\ inflight = PendingState({}, 1, {}, NoJobNumber)

\* POST /api/pending-jobs
StagePending(job_number, man_hours) ==
  /\ UNCHANGED <<tzOffset, settings, schedules, schedule_installers,
                 schedule_slices, nextId>>
  /\ IF job_number = NoJobNumber
     THEN /\ last' = PendingResponse("STAGE", NoId, "rejected", "Required")
          /\ inflight' = [inflight EXCEPT !.arg = job_number]
     ELSE IF ScheduledWith(job_number) # {}
     THEN /\ last' = PendingResponse("STAGE", NoId, "rejected", "Scheduled")
          /\ inflight' = [inflight EXCEPT !.arg = job_number]
     ELSE IF PendingWith(job_number) # {}
     THEN /\ last' = PendingResponse("STAGE",
                                     (CHOOSE pj \in PendingWith(job_number) :
                                        TRUE).id,
                                     "ok", "existing")
          /\ inflight' = [inflight EXCEPT !.arg = job_number]
     ELSE /\ last' = PendingResponse("STAGE", inflight.nextPending, "ok",
                                     "created")
          /\ inflight' =
               PendingState(inflight.pending
                              \cup {PendingRow(inflight.nextPending,
                                               job_number, man_hours)},
                            inflight.nextPending + 1, inflight.job_numbers,
                            job_number)

\* the rows of an install-request file, one after the other: a row without
\* a job number is an error, a scheduled one a duplicate, any other one is
\* inserted into pending_jobs unless it is there (INSERT OR IGNORE)
RECURSIVE ImportRows(_, _, _)
ImportRows(rows, pending, nextPending) ==
  IF rows = <<>> THEN [pending |-> pending, nextPending |-> nextPending]
  ELSE LET job_number == Head(rows)
       IN IF job_number = NoJobNumber \/ ScheduledWith(job_number) # {}
             \/ \E pj \in pending : pj.job_number = job_number
          THEN ImportRows(Tail(rows), pending, nextPending)
          ELSE ImportRows(Tail(rows),
                          pending \cup {PendingRow(nextPending, job_number, 0)},
                          nextPending + 1)

\* POST /api/import/install-requests
ImportInstallRequests(rows) ==
  LET done == ImportRows(rows, inflight.pending, inflight.nextPending)
  IN /\ last' = PendingResponse("IMPORT", NoId, "ok", "none")
     /\ inflight' = PendingState(done.pending, done.nextPending,
                                 inflight.job_numbers, NoJobNumber)
     /\ UNCHANGED <<tzOffset, settings, schedules, schedule_installers,
                    schedule_slices, nextId>>

\* POST /api/pending-jobs/:id/schedule
PromotePending(id, hasDate, date, hasManHours, man_hours) ==
  LET found == {pj \in inflight.pending : pj.id = id}
      pj == CHOOSE x \in found : TRUE
      mh == IF hasManHours THEN man_hours ELSE pj.man_hours
      keep == [inflight EXCEPT !.arg = id]
  IN IF ~hasDate
     THEN /\ last' = PendingResponse("PROMOTE", NoId, "rejected", "Required")
          /\ inflight' = keep
          /\ UNCHANGED <<tzOffset, settings, schedules, schedule_installers,
                         schedule_slices, nextId>>
     ELSE IF found = {}
     THEN /\ last' = PendingResponse("PROMOTE", NoId, "rejected", "NotFound")
          /\ inflight' = keep
          /\ UNCHANGED <<tzOffset, settings, schedules, schedule_installers,
                         schedule_slices, nextId>>
     ELSE IF ScheduledWith(pj.job_number) # {}
     THEN /\ last' = PendingResponse("PROMOTE", NoId, "rejected",
                                     "StorageError")
          /\ inflight' = keep
          /\ UNCHANGED <<tzOffset, settings, schedules, schedule_installers,
                         schedule_slices, nextId>>
     ELSE /\ last' = PendingResponse("PROMOTE", nextId, "ok", "none")
          /\ schedules' = schedules
               \cup {ScheduleRow(nextId, date, mh, FALSE, FALSE, FALSE)}
          /\ nextId' = nextId + 1
          /\ inflight' =
               PendingState(inflight.pending \ found, inflight.nextPending,
                            inflight.job_numbers
                              \cup {<<nextId, pj.job_number>>},
                            id)
          /\ UNCHANGED <<tzOffset, settings, schedule_installers,
                         schedule_slices>>

\* POST /api/schedules with its job_number: the INSERT INTO schedules fails
\* on a job number that is absent or that a schedule has
CreateDirect(job_number, body) ==
  LET r == PostOutcome(body)
      inserts == r.status = "ok" \/ r.kind = "StorageError"
      refused == job_number = NoJobNumber \/ ScheduledWith(job_number) # {}
      keep == [inflight EXCEPT !.arg = job_number]
  IN IF inserts /\ refused
     THEN /\ last' = Response("POST", NoId, body, "rejected",
                              IF job_number = NoJobNumber
                              THEN "StorageError" ELSE "JobNumberExists",
                              r.date,
                              ShiftDate(body.date, body.override,
                                        body.core_hours_override,
                                        settings.holidays),
                              <<>>)
          /\ inflight' = keep
          /\ UNCHANGED <<tzOffset, settings, schedules, schedule_installers,
                         schedule_slices, nextId>>
     ELSE /\ last' = r
          /\ UNCHANGED <<tzOffset, settings>>
          /\ IF inserts
             THEN /\ schedules' = schedules \cup
                       {ScheduleRow(nextId, r.date, body.man_hours,
                                    body.core_hours_override, body.override,
                                    body.override_availability)}
                  /\ schedule_installers' =
                       schedule_installers
                         \cup (IF r.status = "ok"
                               THEN Links(nextId, body.installers)
                               ELSE LinksBeforeDuplicate(nextId,
                                                         body.installers))
                  /\ schedule_slices' =
                       IF r.status = "ok"
                       THEN schedule_slices \o SliceRows(nextId, r.slices)
                       ELSE schedule_slices
                  /\ nextId' = nextId + 1
                  /\ inflight' =
                       [keep EXCEPT !.job_numbers =
                                      @ \cup {<<nextId, job_number>>}]
             ELSE /\ inflight' = keep
                  /\ UNCHANGED <<schedules, schedule_installers,
                                 schedule_slices, nextId>>

PendingManHours == {0, Hours(4)}

PendingFiles == {<<"A">>, <<"B", NoJobNumber>>, <<"A", "B">>}

PendingPostBodies ==
  {PostBody(LocalStr(Friday, 8, 0), Hours(4), ins, FALSE, FALSE, FALSE) :
     ins \in {<<1>>, <<1, 1>>}}

Stage ==
  \E job_number \in JobNumbers \cup {NoJobNumber} :
    \E man_hours \in PendingManHours :
      inflight.nextPending <= MaxJobs /\ StagePending(job_number, man_hours)

Import ==
  \E rows \in PendingFiles :
    inflight.nextPending <= MaxJobs /\ ImportInstallRequests(rows)

Promote ==
  \E id \in 1..MaxJobs : \E hasDate \in BOOLEAN : \E hasManHours \in BOOLEAN :
    /\ nextId <= MaxJobs
    /\ PromotePending(id, hasDate, LocalStr(Friday, 8, 0), hasManHours,
                      Hours(8))

Create ==
  \E job_number \in JobNumbers \cup {NoJobNumber} :
    \E body \in PendingPostBodies :
      nextId <= MaxJobs /\ CreateDirect(job_number, body)

NextPending == Stage \/ Import \/ Promote \/ Create

SpecPending == InitPending /\ [][NextPending]_vars

\* the job numbers that are pending and also scheduled
PendingAndScheduled ==
  {pj.job_number : pj \in inflight.pending}
    \cap {p[2] : p \in inflight.job_numbers}

\* C37: after any sequence of staging, importing, promoting and creating
\* directly, no job number is both in pending jobs and in schedules;
\* staging a job number that is pending answers with the pending job that
\* exists and adds none; promoting removes the pending job exactly when
\* the schedule was created.
C37_PendingOrScheduled ==
  [][/\ PendingAndScheduled' = {}
     /\ (last'.op = "STAGE" /\ PendingWith(inflight'.arg) # {})
        => /\ inflight'.pending = inflight.pending
           /\ last'.status = "ok"
           /\ last'.id \in {pj.id : pj \in PendingWith(inflight'.arg)}
     /\ last'.op = "PROMOTE"
        => ((\E pj \in inflight.pending : pj.id = inflight'.arg)
              /\ ~(\E pj \in inflight'.pending : pj.id = inflight'.arg)
            <=> schedules' # schedules)]_vars

====
